---- MODULE Spec2Model ----
(***************************************************************************)
(* ScrapeSafe backend: site registration and ownership verification,       *)
(* license terms, license purchase / revocation and the license-check      *)
(* cache, modelled as concurrent request handlers over a relational store. *)
(*                                                                         *)
(* Every request handler is an async function: it runs atomically between  *)
(* two awaits, and each awaited store query is one atomic step.  A step    *)
(* of the model is therefore either one store query (with the purely       *)
(* local computation around it) or one synchronous access to the shared    *)
(* in-memory cache.                                                        *)
(***************************************************************************)
EXTENDS Integers, Sequences, FiniteSets, TLC

\* ------------------------------------------------------------------ bounds
NumProcs == 2          \* concurrent request handlers
MaxTerms == 2          \* LicenseTerms rows
MaxLicenses == 1       \* License rows
MaxExt == 1            \* external asset identifiers the IP service hands out
MaxTicks == 2           \* clock horizon, in ticks
TickSeconds == 31      \* granularity of the clock
MaxPurchases == 2      \* License rows when only purchases run
MaxFields == 2         \* properties of a submitted receipt object
MaxRecords == 2        \* TXT records in a resolver answer
MaxJobs == 2           \* jobs put on the pin queue
MaxLoops == 2          \* calls of processQueue inside their loop at one time

\* ------------------------------------------------------- program constants
LicenseCheckTtl == 60  \* cacheLicenseCheck: cache.set(key, ..., 60)
MaxRetries == 3        \* processQueue: if (job.retries < 3)

Procs == 1..NumProcs

\* ------------------------------------------------------------ value shapes
\* Asset identifiers as the strings the program handles:
\*   Num(n)   the decimal string "<n>"
\*   Local(n) the string "story:local:<n>"
\*   Ext(k)   an opaque identifier returned by the IP-registration service
\*   NullIp   SQL NULL
Num(n) == [kind |-> "num", n |-> n]
Local(n) == [kind |-> "local", n |-> n]
Ext(k) == [kind |-> "ext", n |-> k]
NullIp == [kind |-> "null", n |-> 0]

\* Addresses: who owns the key, and whether the hex digits are written in
\* lower case.  who = 0 is a string that is not an address at all.
Addr(w, l) == [who |-> w, lc |-> l]
toLowerCase(a) == [a EXCEPT !.lc = TRUE]
ValidAddress(a) == a.who # 0

Methods == {"dns", "meta", "file"}

NoResp == [op |-> "none", status |-> 0]

VARIABLES
  sites,      \* Site table: row id = index
  terms,      \* LicenseTerms table
  licenses,   \* License table
  cache,      \* InMemoryCache.store, by license-check key
  now,        \* Date.now(), seconds
  nextExt,    \* next identifier the external IP service will mint
  firstMethod,\* history: method written when a Site first became verified
  pc,         \* position of each request handler
  loc,        \* local variables of each request handler
  resp,       \* response sent by the last step (NoResp when none was sent)
  serverWallet, \* story.ts: let serverWallet (the key it holds; 0 for null)
  secret,     \* process.env.SERVER_SIGNER_PRIVATE_KEY (0 when absent)
  recorded,   \* the <<operation, status>> pairs whose responses are recorded
  pinQueue,   \* pinWorker.ts: const pinQueue (jobs waiting, oldest first)
  isProcessing, \* pinWorker.ts: let isProcessing
  pinLoops,   \* the calls of processQueue that are inside their while loop
  attempts    \* history: calls of processJob per job, in order of enqueueing

pinVars == <<pinQueue, isProcessing, pinLoops, attempts>>

vars == <<sites, terms, licenses, cache, now, nextExt, firstMethod, pc, loc, resp,
          serverWallet, secret, recorded, pinVars>>

NoLoc == [op |-> "none"]

SiteIds == 1..Len(sites)

\* ---------------------------------------------------------------- helpers
\* parseSiteIdFromIpId: "story:local:<n>" and a numeric string give n; any
\* other string gives no usable site id (0 stands for null: ids start at 1).
parseSiteIdFromIpId(ipId) ==
  IF ipId.kind = "local" THEN ipId.n
  ELSE IF ipId.kind = "num" THEN ipId.n
  ELSE 0

\* prisma.site.findFirst({ where: { storyIpId: ipId } }): set of matching ids
SitesByIpId(ipId) == {s \in SiteIds : sites[s].storyIpId = ipId}

\* enabled LicenseTerms rows of a site
EnabledTerms(s) == {t \in 1..Len(terms) : terms[t].siteId = s /\ terms[t].enabled}

\* What a call of registerIpAsset meets: STORY_SDK_KEY is not set, or it is
\* set and the IP service mints an asset, or it is set and the minting throws
\* (an upload fails, the service rejects, the answer has no ipId).
StoryEnvs == {"unconfigured", "minted", "failed"}

\* mintAndRegisterIp: a fresh identifier from the service, or an exception
mintAndRegisterIp(siteId, env) ==
  IF env = "minted"
  THEN [threw |-> FALSE, ipId |-> Ext(nextExt), simulated |-> FALSE]
  ELSE [threw |-> TRUE, ipId |-> NullIp, simulated |-> FALSE]

\* variant: the exception of the minting is not caught
registerIpAssetIn_NoCatch(siteId, env) ==
  IF env = "unconfigured"
  THEN [threw |-> FALSE, ipId |-> Local(siteId), simulated |-> TRUE]
  ELSE mintAndRegisterIp(siteId, env)

\* registerIpAsset in one environment: without a key the simulated
\* identifier `story:local:${siteId}`; with a key the minted one, and the
\* simulated one again when the minting throws
registerIpAssetIn(siteId, env) ==
  IF env = "unconfigured"
  THEN [threw |-> FALSE, ipId |-> Local(siteId), simulated |-> TRUE]
  ELSE LET minted == mintAndRegisterIp(siteId, env) IN
       IF minted.threw
       THEN [threw |-> FALSE, ipId |-> Local(siteId), simulated |-> TRUE]
       ELSE minted

\* registerIpAsset: the results a call can have for a site (the service
\* hands out at most MaxExt identifiers)
registerIpAsset(siteId) ==
  {registerIpAssetIn(siteId, env) :
     env \in IF nextExt <= MaxExt THEN StoryEnvs ELSE StoryEnvs \ {"minted"}}

\* variant: the file strategy's result is read like a dns/meta result
StrategyOk_FoundOnly(method, found, valid) == found

\* the switch over the method in POST /verify: ok of the strategy result
StrategyOk(method, found, valid) ==
  IF method = "file" THEN found /\ valid ELSE found

\* variant: the asset identifier is left out of the update
VerifySiteData_NoIpId(site, method, ipId) ==
  [site EXCEPT !.verified = TRUE, !.verificationMethod = method]

\* data written by POST /verify on success
VerifySiteData(site, method, ipId) ==
  [site EXCEPT !.verified = TRUE, !.verificationMethod = method, !.storyIpId = ipId]

\* variant: the dev endpoint stores the identifier but clears the flag
TestMintSiteData_Unverified(site, ipId) ==
  [site EXCEPT !.verified = FALSE, !.verificationMethod = "dev-test", !.storyIpId = ipId]

\* data written by POST /test-mint
TestMintSiteData(site, ipId) ==
  [site EXCEPT !.verified = TRUE, !.verificationMethod = "dev-test", !.storyIpId = ipId]

\* The responses the properties refer to are recorded in resp; a response to
\* any other request is sent but not recorded.
RecordedResponses == {<<"verify", 200>>, <<"check", 200>>, <<"buy", 200>>,
                      <<"validate-proof", 200>>, <<"set-terms", 403>>}
Observe(r) == IF <<r.op, r.status>> \in recorded THEN r ELSE NoResp

\* start() calls initServerSigner() before it serves anything (and exits if
\* that throws): requests meet a wallet made from the configured secret
ConfiguredKey == 9
\* pinWorker.ts as loaded: an empty queue, nothing processing
NoJob == [id |-> 0, licenseId |-> 0, retries |-> 0]
NoLoop == [at |-> "none", job |-> NoJob]
PinWorkerLoaded ==
  /\ pinQueue = <<>>
  /\ isProcessing = FALSE
  /\ pinLoops = [l \in 1..MaxLoops |-> NoLoop]
  /\ attempts = <<>>

SignerStarted ==
  /\ secret = ConfiguredKey
  /\ serverWallet = ConfiguredKey

Done(p, r) ==
  /\ pc' = [pc EXCEPT ![p] = "idle"]
  /\ loc' = [loc EXCEPT ![p] = NoLoc]
  /\ resp' = Observe(r)

Goto(p, label, l) ==
  /\ pc' = [pc EXCEPT ![p] = label]
  /\ loc' = [loc EXCEPT ![p] = l]
  /\ resp' = NoResp

InFlight(labels) == Cardinality({q \in Procs : pc[q] \in labels})

\* ------------------------------------------------------------------- Init
Init ==
  /\ SignerStarted
  /\ recorded = RecordedResponses
  /\ sites = <<>>
  /\ terms = <<>>
  /\ licenses = <<>>
  /\ cache = [k \in {} |-> NoResp]
  /\ now = 0
  /\ nextExt = 1
  /\ firstMethod = <<>>
  /\ pc = [p \in Procs |-> "idle"]
  /\ loc = [p \in Procs |-> NoLoc]
  /\ resp = NoResp
  /\ PinWorkerLoaded

\* ------------------------------------------------- POST /api/owner/register
\* Domains as typed by the caller: a host name, possibly with upper-case
\* letters, a scheme prefix or trailing slashes, and possibly with white
\* space in front of it (lead) or after it (trail).
RawDomain(h, u, s, t) ==
  [host |-> h, upper |-> u, scheme |-> s, slash |-> t, lead |-> FALSE, trail |-> FALSE]
Spaced(d, lead, trail) == [d EXCEPT !.lead = lead, !.trail = trail]

\* the four string operations of the normalization, each on the whole string
DomainToLowerCase(d) == [d EXCEPT !.upper = FALSE]
\* .replace(/^https?:\/\//, ''): a scheme at the very start of the string
StripScheme(d) == IF d.lead THEN d ELSE [d EXCEPT !.scheme = FALSE]
\* .replace(/\/+$/, ''): slashes at the very end of the string
StripSlashes(d) == IF d.trail THEN d ELSE [d EXCEPT !.slash = FALSE]
\* .trim()
Trim(d) == [d EXCEPT !.lead = FALSE, !.trail = FALSE]

\* domain.toLowerCase().replace(scheme).replace(slashes).trim()
NormalizeDomain(d) == Trim(StripSlashes(StripScheme(DomainToLowerCase(d))))
DomainInputs == {RawDomain("example.com", FALSE, FALSE, FALSE),
                 RawDomain("example.com", TRUE, TRUE, TRUE)}

\* Site.domain is unique, so the table holds at most one row per normalized
\* input domain; requests name a site by one of these ids
SiteIdInputs == 1..Cardinality({NormalizeDomain(d) : d \in DomainInputs})

\* owner wallets as typed by the caller: an address, and a string that is
\* not 0x followed by 40 hex digits (or no string at all)
OwnerInputs == {Addr(2, FALSE), Addr(0, TRUE)}

\* the same address typed in checksum case and in lower case
OwnerSpellings == {Addr(2, FALSE), Addr(2, TRUE)}

\* the request body's domain: one of the domains, or missing
NoDomain == RawDomain("", FALSE, FALSE, FALSE)
RegisterDomainInputs == DomainInputs \cup {NoDomain}

\* variant: the identifier alone
VerificationToken_NoPrefix(uuid) == <<ToString(uuid)>>

\* `scrapesafe-${uuidv4()}`: the prefix and an identifier no other token has
VerificationToken(uuid) == <<"scrapesafe-", ToString(uuid)>>

RegisterFind(p, domain, ownerWallet) ==
  /\ pc[p] = "idle"
  /\ LET nd == NormalizeDomain(domain)
         existing == {s \in SiteIds : sites[s].domain = nd}
     IN IF domain = NoDomain \/ ~ValidAddress(ownerWallet)
        THEN Done(p, [op |-> "register", status |-> 400])
        ELSE IF existing # {}
        THEN Done(p, [op |-> "register", status |-> 409,
                      siteId |-> CHOOSE s \in existing : TRUE])
        ELSE Goto(p, "regCreate", [op |-> "register", domain |-> nd,
                                   ownerWallet |-> ownerWallet])
  /\ UNCHANGED <<sites, terms, licenses, cache, now, nextExt, firstMethod, serverWallet, secret, recorded, pinVars>>

RegisterCreate(p) ==
  /\ pc[p] = "regCreate"
  /\ IF \E s \in SiteIds : sites[s].domain = loc[p].domain
     THEN \* unique index Site_domain_key rejects the insert
          /\ Done(p, [op |-> "register", status |-> 500])
          /\ UNCHANGED <<sites, firstMethod>>
     ELSE /\ sites' = Append(sites, [domain |-> loc[p].domain,
                                     ownerAddress |-> loc[p].ownerWallet,
                                     verificationToken |-> VerificationToken(Len(sites) + 1),
                                     verified |-> FALSE,
                                     verificationMethod |-> "null",
                                     storyIpId |-> NullIp])
          /\ firstMethod' = Append(firstMethod, "null")
          /\ Done(p, [op |-> "register", status |-> 201, siteId |-> Len(sites) + 1])
  /\ UNCHANGED <<terms, licenses, cache, now, nextExt, serverWallet, secret, recorded, pinVars>>

\* --------------------------------------------------- POST /api/owner/verify
\* methods as requested: a lookup strategy (meta is read like dns), the
\* signed rights file, and a name that is no method
MethodInputs == {"dns", "file", "bogus"}

VerifyFind(p, siteId, method) ==
  /\ pc[p] = "idle"
  /\ IF method \notin Methods
     THEN Done(p, [op |-> "verify", status |-> 400])
     ELSE IF siteId \notin SiteIds
     THEN Done(p, [op |-> "verify", status |-> 404])
     ELSE IF sites[siteId].verified
     THEN Done(p, [op |-> "verify", status |-> 200, ok |-> TRUE, siteId |-> siteId,
                   details |-> "already",
                   method |-> sites[siteId].verificationMethod])
     ELSE Goto(p, "vStrategy", [op |-> "verify", siteId |-> siteId, method |-> method,
                                domain |-> sites[siteId].domain,
                                token |-> sites[siteId].verificationToken,
                                owner |-> sites[siteId].ownerAddress])
  /\ UNCHANGED <<sites, terms, licenses, cache, now, nextExt, firstMethod, serverWallet, secret, recorded, pinVars>>

\* the strategy runs against the live domain (its outcome is the
\* environment's), then on success the IP asset is registered
VerifyStrategy(p, found, valid) ==
  /\ pc[p] = "vStrategy"
  /\ loc[p].method # "file" => valid = found  \* dns, meta: found doubles as validity
  /\ IF StrategyOk(loc[p].method, found, valid)
     THEN \E storyResult \in registerIpAsset(loc[p].siteId) :
            /\ Goto(p, "vUpdate", [loc[p] EXCEPT !.op = "verify"] @@
                      [found |-> found, valid |-> valid, ipId |-> storyResult.ipId,
                       simulated |-> storyResult.simulated])
            /\ nextExt' = IF storyResult.ipId.kind = "ext" THEN nextExt + 1 ELSE nextExt
     ELSE /\ Done(p, [op |-> "verify", status |-> 200, ok |-> FALSE,
                      siteId |-> loc[p].siteId, details |-> "failed", method |-> "null"])
          /\ UNCHANGED nextExt
  /\ UNCHANGED <<sites, terms, licenses, cache, now, firstMethod, serverWallet, secret, recorded, pinVars>>

VerifyUpdate(p) ==
  /\ pc[p] = "vUpdate"
  /\ LET s == loc[p].siteId IN
       /\ sites' = [sites EXCEPT ![s] = VerifySiteData(@, loc[p].method, loc[p].ipId)]
       /\ firstMethod' = IF sites[s].verified THEN firstMethod
                         ELSE [firstMethod EXCEPT ![s] = loc[p].method]
       /\ Done(p, [op |-> "verify", status |-> 200, ok |-> TRUE, siteId |-> s,
                   details |-> "verified", method |-> "null",
                   storyIpId |-> loc[p].ipId, storySimulated |-> loc[p].simulated])
  /\ UNCHANGED <<terms, licenses, cache, now, nextExt, serverWallet, secret, recorded, pinVars>>

\* ------------------------------------------------ POST /api/owner/test-mint
TestMintFind(p, siteId) ==
  /\ pc[p] = "idle"
  /\ IF siteId \notin SiteIds
     THEN Done(p, [op |-> "test-mint", status |-> 404])
     ELSE IF sites[siteId].storyIpId # NullIp
     THEN Done(p, [op |-> "test-mint", status |-> 200, siteId |-> siteId,
                   storyIpId |-> sites[siteId].storyIpId,
                   storySimulated |-> sites[siteId].storyIpId.kind = "local"])
     ELSE Goto(p, "tmUpdate", [op |-> "test-mint", siteId |-> siteId])
  /\ UNCHANGED <<sites, terms, licenses, cache, now, nextExt, firstMethod, serverWallet, secret, recorded, pinVars>>

TestMintUpdate(p) ==
  /\ pc[p] = "tmUpdate"
  /\ LET s == loc[p].siteId IN
     \E storyResult \in registerIpAsset(s) :
       /\ nextExt' = IF storyResult.ipId.kind = "ext" THEN nextExt + 1 ELSE nextExt
       /\ sites' = [sites EXCEPT ![s] = TestMintSiteData(@, storyResult.ipId)]
       /\ firstMethod' = IF sites[s].verified THEN firstMethod
                         ELSE [firstMethod EXCEPT ![s] = "dev-test"]
       /\ Done(p, [op |-> "test-mint", status |-> 200, siteId |-> s,
                   storyIpId |-> storyResult.ipId,
                   storySimulated |-> storyResult.simulated])
  /\ UNCHANGED <<terms, licenses, cache, now, serverWallet, secret, recorded, pinVars>>

\* ------------------------------------------------ POST /api/owner/set-terms
TermsInput(a, m, u) == [allowedActions |-> a, priceModel |-> m, pricePerUnit |-> u]
TermsInputs == {TermsInput(<<"SCRAPE">>, "FLAT", 50),
                TermsInput(<<>>, "FLAT", 50),
                TermsInput(<<"SCRAPE">>, "AUCTION", 50),
                TermsInput(<<"SCRAPE">>, "FLAT", -1)}
PriceModels == {"PER_SCRAPE", "SUBSCRIPTION", "FLAT"}

\* variant: a negative price is let through
ValidTermsInput_AnyPrice(in) ==
  /\ Len(in.allowedActions) # 0
  /\ in.priceModel \in PriceModels

ValidTermsInput(in) ==
  /\ Len(in.allowedActions) # 0
  /\ in.priceModel \in PriceModels
  /\ in.pricePerUnit >= 0

\* variant: the verified flag is not looked at
CanSetTerms_Any(site) == TRUE

\* if (!site.verified) return 403
CanSetTerms(site) == site.verified

SetTermsFind(p, siteId, in) ==
  /\ pc[p] = "idle"
  /\ Len(terms) + InFlight({"stFindTerms", "stWrite"}) < MaxTerms
  /\ IF ~ValidTermsInput(in)
     THEN Done(p, [op |-> "set-terms", status |-> 400])
     ELSE IF siteId \notin SiteIds
     THEN Done(p, [op |-> "set-terms", status |-> 404])
     ELSE IF ~CanSetTerms(sites[siteId])
     THEN Done(p, [op |-> "set-terms", status |-> 403, siteId |-> siteId])
     ELSE Goto(p, "stFindTerms", [op |-> "set-terms", siteId |-> siteId, in |-> in])
  /\ UNCHANGED <<sites, terms, licenses, cache, now, nextExt, firstMethod, serverWallet, secret, recorded, pinVars>>

\* prisma.licenseTerms.findFirst({ where: { siteId, enabled: true } }): no
\* ordering is requested, so any matching row may be the one returned
SetTermsFindTerms(p) ==
  /\ pc[p] = "stFindTerms"
  /\ \E t \in (IF EnabledTerms(loc[p].siteId) = {} THEN {0} ELSE EnabledTerms(loc[p].siteId)) :
       Goto(p, "stWrite", loc[p] @@ [existingTerms |-> t])
  /\ UNCHANGED <<sites, terms, licenses, cache, now, nextExt, firstMethod, serverWallet, secret, recorded, pinVars>>

SetTermsWrite(p) ==
  /\ pc[p] = "stWrite"
  /\ LET in == loc[p].in
         t == loc[p].existingTerms
     IN IF t # 0
        THEN /\ terms' = [terms EXCEPT ![t] = [@ EXCEPT !.allowedActions = in.allowedActions,
                                                        !.priceModel = in.priceModel,
                                                        !.pricePerUnit = in.pricePerUnit]]
             /\ Done(p, [op |-> "set-terms", status |-> 200, termsId |-> t])
        ELSE /\ terms' = Append(terms, [siteId |-> loc[p].siteId,
                                        allowedActions |-> in.allowedActions,
                                        priceModel |-> in.priceModel,
                                        pricePerUnit |-> in.pricePerUnit,
                                        enabled |-> TRUE])
             /\ Done(p, [op |-> "set-terms", status |-> 200, termsId |-> Len(terms) + 1])
  /\ UNCHANGED <<sites, licenses, cache, now, nextExt, firstMethod, serverWallet, secret, recorded, pinVars>>

\* ------------------------------------------------------ license-check cache
\* variant: the buyer goes into the key as written
getLicenseCheckCacheKey_AsWritten(ipId, buyer) == [ipId |-> ipId, buyer |-> buyer]

\* getLicenseCheckCacheKey: `license:${ipId}:${buyer.toLowerCase()}`
getLicenseCheckCacheKey(ipId, buyer) == [ipId |-> ipId, buyer |-> toLowerCase(buyer)]

Expired(e) == now > e.expiresAt

\* InMemoryCache.delete
CacheDelete(c, key) == [k \in DOMAIN c \ {key} |-> c[k]]

\* InMemoryCache.set
CacheSet(c, key, value, ttlSeconds) ==
  [k \in DOMAIN c \cup {key} |->
     IF k = key THEN [value |-> value, expiresAt |-> now + ttlSeconds,
                      cachedAt |-> now,
                      preRevoke |-> FALSE, prePurchase |-> FALSE]
     ELSE c[k]]

\* variant: the expiry time is not looked at
CacheGet_NoExpiry(c, key) ==
  IF key \notin DOMAIN c THEN NoResp ELSE c[key].value

\* InMemoryCache.get: the value read (NoResp stands for null) ...
CacheGet(c, key) ==
  IF key \notin DOMAIN c THEN NoResp
  ELSE IF Expired(c[key]) THEN NoResp
  ELSE c[key].value

\* variant: a read that meets an expired entry sweeps all expired entries
CacheAfterGet_Sweep(c, key) ==
  IF key \in DOMAIN c /\ Expired(c[key])
  THEN [k \in {j \in DOMAIN c : ~Expired(c[j])} |-> c[k]]
  ELSE c

\* ... and the store it leaves: an expired entry is deleted by the read
CacheAfterGet(c, key) ==
  IF key \in DOMAIN c /\ Expired(c[key]) THEN CacheDelete(c, key) ELSE c

\* the asset identifier both POST /buy and POST /revoke-license invalidate
\* under: site.storyIpId || `story:local:${site.id}`
InvalidationIpId(storyIpId, siteId) ==
  IF storyIpId # NullIp THEN storyIpId ELSE Local(siteId)

\* the site an asset identifier resolves to in the current store (0: none):
\* lookup by stored identifier first, then by parsed site id
ResolveSite(ipId) ==
  IF SitesByIpId(ipId) # {} THEN CHOOSE s \in SitesByIpId(ipId) : TRUE
  ELSE IF parseSiteIdFromIpId(ipId) \in SiteIds THEN parseSiteIdFromIpId(ipId)
  ELSE 0

\* License.expiry is a nullable column that no handler writes: every row
\* holds null
NullExpiry == [null |-> TRUE]

\* variant: the status of the row is not looked at
ActiveLicenses_AnyStatus(siteId, buyer) ==
  {l \in 1..Len(licenses) :
     /\ licenses[l].buyerAddress = buyer
     /\ terms[licenses[l].licenseTermsId].siteId = siteId
     /\ terms[licenses[l].licenseTermsId].enabled
     /\ (licenses[l].expiry = NullExpiry \/ licenses[l].expiry.at > now)}

\* the License rows GET /check-license accepts for a site and a buyer
ActiveLicenses(siteId, buyer) ==
  {l \in 1..Len(licenses) :
     /\ licenses[l].buyerAddress = buyer
     /\ licenses[l].status = "active"
     /\ terms[licenses[l].licenseTermsId].siteId = siteId
     /\ terms[licenses[l].licenseTermsId].enabled
     /\ (licenses[l].expiry = NullExpiry \/ licenses[l].expiry.at > now)}

\* History fields on cache entries (they influence no action): cachedAt is
\* the time of the set that wrote the entry, preRevoke
\* marks a positive entry that survived a completed revoke of its license,
\* prePurchase a negative entry that survived a completed purchase for its
\* asset and buyer.
MarkPreRevoke(c, licenseId) ==
  [k \in DOMAIN c |->
     IF c[k].value.hasLicense /\ c[k].value.licenseId = licenseId
     THEN [c[k] EXCEPT !.preRevoke = TRUE] ELSE c[k]]

MarkPrePurchase(c, siteId, buyer) ==
  [k \in DOMAIN c |->
     IF ~c[k].value.hasLicense /\ k.buyer = toLowerCase(buyer) /\ ResolveSite(k.ipId) = siteId
     THEN [c[k] EXCEPT !.prePurchase = TRUE] ELSE c[k]]

\* ------------------------------------------------------------ JSON values
\* A JSON-compatible value as JavaScript holds it.  An object is the sequence
\* of its own properties in the order the engine enumerates them (integer
\* keys in ascending numeric order, then the other keys in insertion order),
\* an array the sequence of its elements, a primitive the token
\* JSON.stringify prints for it.
Prop(k, v) == [k |-> k, v |-> v]
JPrim(token) == [t |-> "prim", v |-> token, f |-> <<>>]
JObj(props) == [t |-> "obj", v |-> "", f |-> props]
JArr(elems) == [t |-> "arr", v |-> "", f |-> [i \in DOMAIN elems |-> Prop("", elems[i])]]

\* the property names in use, in the order Array.prototype.sort puts them
\* (UTF-16 code units: digits sort before "_", "_" before the lower-case
\* letters, so "10" comes before "9")
KeyOrder == <<"10", "9", "__proto__", "a", "buyerAddress", "domain", "ipId", "issuer",
              "licenseId", "owner", "pricePerUnit", "signature", "siteId",
              "termsId", "timestamp", "token", "z">>
Rank(k) == CHOOSE i \in DOMAIN KeyOrder : KeyOrder[i] = k

\* Object.keys(value)
ObjectKeys(value) == [i \in DOMAIN value.f |-> value.f[i].k]

\* variant: the keys are left in insertion order
sort_Unsorted(keys) == keys

\* keys.sort()
sort(keys) ==
  LET S == {keys[i] : i \in DOMAIN keys} IN
  [j \in 1..Cardinality(S) |->
     CHOOSE k \in S : Cardinality({x \in S : Rank(x) < Rank(k)}) = j - 1]

\* value[key]
GetProperty(value, key) ==
  value.f[CHOOSE i \in DOMAIN value.f : value.f[i].k = key].v

\* the integer a key is the canonical numeric string of (-1: not an integer key)
ArrayIndex(k) == IF k = "9" THEN 9 ELSE IF k = "10" THEN 10 ELSE -1

\* a new own property takes its place in the enumeration order: an integer
\* key after the smaller integer keys, any other key at the end
InsertProperty(f, key, val) ==
  LET before == IF ArrayIndex(key) < 0 THEN Len(f)
                ELSE Cardinality({i \in DOMAIN f : /\ ArrayIndex(f[i].k) >= 0
                                                    /\ ArrayIndex(f[i].k) < ArrayIndex(key)})
  IN SubSeq(f, 1, before) \o <<Prop(key, val)>> \o SubSeq(f, before + 1, Len(f))

\* sorted[key] = val on an ordinary object: an assignment, so the name
\* "__proto__" reaches the inherited accessor and creates no own property
SetProperty(obj, key, val) ==
  IF key = "__proto__" THEN obj
  ELSE IF \E i \in DOMAIN obj.f : obj.f[i].k = key
  THEN JObj([i \in DOMAIN obj.f |-> IF obj.f[i].k = key THEN Prop(key, val) ELSE obj.f[i]])
  ELSE JObj(InsertProperty(obj.f, key, val))

\* keys.reduce((sorted, key) => { sorted[key] = value[key]; return sorted }, {})
RECURSIVE reduce(_, _, _, _)
reduce(keys, i, value, sorted) ==
  IF i > Len(keys) THEN sorted
  ELSE reduce(keys, i + 1, value, SetProperty(sorted, keys[i], GetProperty(value, keys[i])))

\* the replacer of stableStringify: a non-null, non-array object is replaced
\* by a copy with its keys sorted, anything else is kept
replacer(value) ==
  IF value.t = "obj" THEN reduce(sort(ObjectKeys(value)), 1, value, JObj(<<>>))
  ELSE value

\* stableStringify: JSON.stringify with that replacer, applied to every value
\* on the way down.  The string is the sequence of its tokens.
RECURSIVE stableStringify(_)
RECURSIVE JoinMembers(_, _, _)
stableStringify(obj) ==
  LET value == replacer(obj) IN
  IF value.t = "obj" THEN <<"{">> \o JoinMembers(value.f, 1, TRUE) \o <<"}">>
  ELSE IF value.t = "arr" THEN <<"[">> \o JoinMembers(value.f, 1, FALSE) \o <<"]">>
  ELSE <<value.v>>

JoinMembers(f, i, named) ==
  IF i > Len(f) THEN <<>>
  ELSE (IF i > 1 THEN <<",">> ELSE <<>>)
       \o (IF named THEN <<f[i].k, ":">> ELSE <<>>)
       \o stableStringify(f[i].v)
       \o JoinMembers(f, i + 1, named)

\* ------------------------------------------------------------------- signer
\* A signature string: well formed (65 bytes that decode to a point) or not.
\* A well-formed one is determined by the key that made it and the message.
Signature(signer, message) == [wellFormed |-> TRUE, signer |-> signer, message |-> message]
MalformedSignature == [wellFormed |-> FALSE, signer |-> Addr(0, TRUE), message |-> <<"0x00">>]

\* getServerAddress: the address of the wallet held, printed in checksum
\* (mixed) case
ServerAddress == Addr(serverWallet, FALSE)

\* the address recovery yields for a message the signature was not made
\* for: the address of a key nobody holds
UnrelatedAddress == Addr(8, FALSE)

\* '' as returned in the signer field
EmptyString == Addr(0, TRUE)

\* wallet.signMessage(message)
signMessage(message) == Signature(ServerAddress, message)

\* variant: the receipt is signed as JSON.stringify prints it
signReceipt_NotCanonical(receipt) ==
  signMessage(IF receipt.t = "obj"
              THEN <<"{">> \o JoinMembers(receipt.f, 1, TRUE) \o <<"}">>
              ELSE stableStringify(receipt))

\* signReceipt: canonicalize, then sign
signReceipt(receipt) == signMessage(stableStringify(receipt))

\* verifySignature = ethers.verifyMessage: returns the recovered address,
\* throws on a malformed signature
verifySignature(message, signature) ==
  IF ~signature.wellFormed THEN [threw |-> TRUE, value |-> EmptyString]
  ELSE IF signature.message = message THEN [threw |-> FALSE, value |-> signature.signer]
  ELSE [threw |-> FALSE, value |-> UnrelatedAddress]

\* verifyReceipt: try { recover and compare, ignoring case } catch { invalid }
verifyReceipt(receipt, signature) ==
  LET recovered == verifySignature(stableStringify(receipt), signature) IN
  IF recovered.threw THEN [valid |-> FALSE, signer |-> EmptyString]
  ELSE [valid |-> toLowerCase(recovered.value) = toLowerCase(ServerAddress),
        signer |-> recovered.value]

\* variant: the recovered address is compared with the server's
verifyOwnerSignature_Server(payload, signature, expectedOwner) ==
  LET recovered == verifySignature(stableStringify(payload), signature) IN
  IF recovered.threw THEN [valid |-> FALSE, signer |-> EmptyString]
  ELSE [valid |-> toLowerCase(recovered.value) = toLowerCase(ServerAddress),
        signer |-> recovered.value]

\* verifyOwnerSignature: the same against the expected owner
verifyOwnerSignature(payload, signature, expectedOwner) ==
  LET recovered == verifySignature(stableStringify(payload), signature) IN
  IF recovered.threw THEN [valid |-> FALSE, signer |-> EmptyString]
  ELSE [valid |-> toLowerCase(recovered.value) = toLowerCase(expectedOwner),
        signer |-> recovered.value]

\* ------------------------------------------------- verification strategies
\* Strings the strategies compare are sequences of pieces: a token is
\* <<"scrapesafe-", id>>, a TXT record segment or a tag's content any
\* sequence.  s.includes(t):
Includes(s, t) == \E i \in 0..(Len(s) - Len(t)) : SubSeq(s, i + 1, i + Len(t)) = t

\* r.join('')
RECURSIVE Join(_)
Join(segments) == IF segments = <<>> THEN <<>> ELSE Head(segments) \o Join(Tail(segments))

\* what a strategy hands back: a result, or an exception raised to the caller
Thrown(message) == [threw |-> TRUE, found |-> FALSE, valid |-> FALSE, details |-> message]
Result(found, valid, details) ==
  [threw |-> FALSE, found |-> found, valid |-> valid, details |-> details]

\* dns.resolveTxt: an answer (records, each a sequence of segments) or an
\* error with a code
DnsAnswer(records) == [kind |-> "records", records |-> records, code |-> ""]
DnsError(code) == [kind |-> "error", records |-> <<>>, code |-> code]

\* checkDnsTxt, the body of its try block
checkDnsTxt_Try(domain, expectedToken, resolved) ==
  IF resolved.kind = "error" THEN Thrown(resolved.code)
  ELSE LET flatRecords == [i \in DOMAIN resolved.records |-> Join(resolved.records[i])]
           found == \E i \in DOMAIN flatRecords :
                      Includes(flatRecords[i], expectedToken) \/ flatRecords[i] = expectedToken
       IN Result(found, found,
                 IF found THEN "Found valid token in TXT record at"
                 ELSE IF flatRecords = <<>> THEN "Token not found. Found records: none"
                 ELSE "Token not found. Found records:")

\* checkDnsTxt: dns results carry no valid field; found doubles as validity
checkDnsTxt(domain, expectedToken, resolved) ==
  LET r == checkDnsTxt_Try(domain, expectedToken, resolved) IN
  IF ~r.threw THEN r
  ELSE IF r.details \in {"ENODATA", "ENOTFOUND"}
  THEN Result(FALSE, FALSE, "No TXT record found at")
  ELSE Result(FALSE, FALSE, "DNS lookup failed:")

\* fetch: a network error or timeout, or a response with a status, a
\* content type and a body
FetchError == [kind |-> "error", ok |-> FALSE, contentType |-> "", body |-> [kind |-> "none"]]
Response(ok, contentType, body) ==
  [kind |-> "response", ok |-> ok, contentType |-> contentType, body |-> body]

\* a page: whether one of the two patterns finds a scrapesafe meta tag,
\* and the content attribute it captures
Html(tag, content) == [kind |-> "html", tag |-> tag, content |-> content]

\* checkMetaTag (try block and catch)
checkMetaTag(domain, expectedToken, fetched) ==
  IF fetched.kind = "error" THEN Result(FALSE, FALSE, "Failed to fetch or parse")
  ELSE IF ~fetched.ok THEN Result(FALSE, FALSE, "Failed to fetch: HTTP")
  ELSE IF fetched.body.tag
  THEN LET content == fetched.body.content
           found == content = expectedToken \/ Includes(content, expectedToken)
       IN Result(found, found,
                 IF found THEN "Found valid scrapesafe meta tag"
                 ELSE "Meta tag found but token mismatch.")
  ELSE Result(FALSE, FALSE, "No <meta name=\"scrapesafe\"> tag found in page head")

\* A field of the rights file as response.json() returns it: absent, a
\* string, or a (non-zero) number
Absent(s) == [kind |-> "absent", s |-> s]
String(s) == [kind |-> "string", s |-> s]
Number(s) == [kind |-> "number", s |-> s]
Truthy(field) == field.kind # "absent"

\* the body of the rights file: text that is no JSON, the JSON null, a JSON
\* number, string or array, or an object with these fields and a timestamp
Unparsable == [kind |-> "unparsable"]
JsonNull == [kind |-> "null"]
JsonNonObject == [kind |-> "nonobject"]
RightsFile(domain, owner, token, signature) ==
  [kind |-> "object", domain |-> domain, owner |-> owner, token |-> token,
   signature |-> signature]

\* the JSON token of a field
FieldJson(field) == JPrim(IF field.kind = "number" THEN "42" ELSE ToString(field.s))

\* const { signature, ...payloadWithoutSig } = payload
payloadWithoutSig(payload) ==
  LET present == SelectSeq(<<Prop("domain", payload.domain), Prop("owner", payload.owner),
                             Prop("token", payload.token)>>,
                           LAMBDA pr : Truthy(pr.v))
  IN JObj([i \in DOMAIN present |-> Prop(present[i].k, FieldJson(present[i].v))]
          \o <<Prop("timestamp", JPrim("t0"))>>)

\* checkRightsFile, the body of its try block
checkRightsFile_Try(domain, expectedToken, expectedOwner, fetched) ==
  IF fetched.kind = "error" THEN Thrown("fetch failed")
  ELSE IF ~fetched.ok THEN Result(FALSE, FALSE, "Failed to fetch: HTTP")
  ELSE IF fetched.contentType \notin {"application/json", "text/plain"}
  THEN Result(FALSE, FALSE, "Invalid content type")
  ELSE LET payload == fetched.body IN
  IF payload.kind = "unparsable" THEN Thrown("Unexpected token")
  ELSE IF payload.kind = "null" THEN Thrown("Cannot read properties of null")
  ELSE IF payload.kind = "nonobject"
  THEN Result(TRUE, FALSE, "Rights file missing required fields")
  ELSE IF ~Truthy(payload.domain) \/ ~Truthy(payload.owner)
          \/ ~Truthy(payload.token) \/ ~Truthy(payload.signature)
  THEN Result(TRUE, FALSE, "Rights file missing required fields")
  ELSE IF payload.domain # String(domain)
  THEN Result(TRUE, FALSE, "Domain mismatch.")
  ELSE IF payload.token # String(expectedToken)
  THEN Result(TRUE, FALSE, "Token mismatch.")
  ELSE IF payload.owner.kind # "string"
  THEN Thrown("payload.owner.toLowerCase is not a function")
  ELSE IF toLowerCase(payload.owner.s) # toLowerCase(expectedOwner)
  THEN Result(TRUE, FALSE, "Owner mismatch.")
  ELSE IF ~verifyOwnerSignature(payloadWithoutSig(payload), payload.signature.s,
                                expectedOwner).valid
  THEN Result(TRUE, FALSE, "Invalid signature.")
  ELSE Result(TRUE, TRUE, "Valid rights file with verified owner signature")

\* variant: exceptions of the try block reach the caller
checkRightsFile_NoCatch(domain, expectedToken, expectedOwner, fetched) ==
  checkRightsFile_Try(domain, expectedToken, expectedOwner, fetched)

\* checkRightsFile
checkRightsFile(domain, expectedToken, expectedOwner, fetched) ==
  LET r == checkRightsFile_Try(domain, expectedToken, expectedOwner, fetched) IN
  IF r.threw THEN Result(FALSE, FALSE, "Failed to fetch or parse rights file:") ELSE r

\* What the live domain can answer.  TXT records: the token as one
\* segment, split over two segments, inside a longer string, an unrelated
\* record, and each half of the token as a record of its own.
TxtRecords(token) ==
  {<<token>>, <<SubSeq(token, 1, 1), SubSeq(token, 2, 2)>>,
   <<<<"v=">> \o token \o <<";">>>>, <<<<"v=spf1">>>>,
   <<SubSeq(token, 1, 1)>>, <<SubSeq(token, 2, 2)>>}

DnsOutcomes(token) ==
  {DnsAnswer(rs) : rs \in UNION {[1..n -> TxtRecords(token)] : n \in 0..MaxRecords}}
    \cup {DnsError(code) : code \in {"ENODATA", "ENOTFOUND", "ETIMEOUT"}}

MetaOutcomes(token) ==
  {FetchError, Response(FALSE, "text/html", Html(FALSE, <<>>))}
    \cup {Response(TRUE, "text/html", h) :
            h \in {Html(FALSE, <<>>), Html(TRUE, token), Html(TRUE, <<"x">> \o token),
                   Html(TRUE, <<"scrapesafe-", "other">>)}}

\* a signature string made with a key over a rights file's payload
SignedBy(signer, domain, owner, token) ==
  Signature(signer, stableStringify(payloadWithoutSig(
                      RightsFile(domain, owner, token, Absent(MalformedSignature)))))

\* rights files: every field absent, as expected, different, or a number;
\* the signature (recovery yields addresses in checksum case) made by the
\* owner's key, by the server's key, by the
\* owner's key over another payload, malformed, a number, or absent
RightsFiles(domain, token, owner) ==
  {RightsFile(d, o, t, g) :
     d \in {Absent(domain), String(domain), Number(domain),
            String([domain EXCEPT !.upper = TRUE])},
     o \in {Absent(owner), String(owner), String(toLowerCase(owner)), Number(owner),
            String(Addr(3, FALSE))},
     t \in {Absent(token), String(token), String(<<"scrapesafe-", "other">>)},
     g \in {Absent(MalformedSignature), Number(MalformedSignature),
            String(MalformedSignature),
            String(Signature(Addr(owner.who, FALSE), stableStringify(JObj(<<>>))))}}
  \cup
  {RightsFile(d, o, t, String(SignedBy(k, d, o, t))) :
     d \in {Absent(domain), String(domain), Number(domain),
            String([domain EXCEPT !.upper = TRUE])},
     o \in {Absent(owner), String(owner), String(toLowerCase(owner)), Number(owner),
            String(Addr(3, FALSE))},
     t \in {Absent(token), String(token), String(<<"scrapesafe-", "other">>)},
     k \in {Addr(owner.who, FALSE), ServerAddress}}

RightsOutcomes(domain, token, owner) ==
  {FetchError,
   Response(FALSE, "application/json", Unparsable),
   Response(TRUE, "image/png", RightsFile(String(domain), String(owner), String(token),
                                          String(SignedBy(Addr(owner.who, FALSE), String(domain),
                                                          String(owner), String(token))))),
   Response(TRUE, "text/plain", RightsFile(String(domain), String(owner), String(token),
                                           String(SignedBy(Addr(owner.who, FALSE), String(domain),
                                                           String(owner), String(token))))),
   Response(TRUE, "text/plain", Unparsable),
   Response(TRUE, "application/json", Unparsable),
   Response(TRUE, "application/json", JsonNull),
   Response(TRUE, "application/json", JsonNonObject)}
  \cup {Response(TRUE, "application/json", f) : f \in RightsFiles(domain, token, owner)}

StrategyOutcomes(method, domain, token, owner) ==
  IF method = "dns" THEN DnsOutcomes(token)
  ELSE IF method = "meta" THEN MetaOutcomes(token)
  ELSE RightsOutcomes(domain, token, owner)

\* the switch over the method in POST /verify: the strategy call
RunStrategy(method, domain, token, owner, outcome) ==
  IF method = "dns" THEN checkDnsTxt(domain, token, outcome)
  ELSE IF method = "meta" THEN checkMetaTag(domain, token, outcome)
  ELSE checkRightsFile(domain, token, owner, outcome)

\* one strategy call: it has been made with a Site's domain, token and
\* owner, the live domain answers, and the result is handed back (kept
\* with the arguments and the answer)
CheckStrategy(p) ==
  /\ pc[p] = "strategy"
  /\ Done(p, [op |-> "strategy", status |-> 200, method |-> loc[p].method,
              domain |-> loc[p].domain, token |-> loc[p].token, owner |-> loc[p].owner,
              outcome |-> loc[p].outcome,
              result |-> RunStrategy(loc[p].method, loc[p].domain, loc[p].token,
                                     loc[p].owner, loc[p].outcome)])
  /\ UNCHANGED <<sites, terms, licenses, cache, now, nextExt, firstMethod, serverWallet, secret, recorded, pinVars>>

\* ------------------------------------------------------------ POST /api/buy

BuyerInputs == {Addr(1, FALSE), Addr(0, TRUE)}
IpIdInputs == {Num(n) : n \in SiteIdInputs} \cup {Local(n) : n \in SiteIdInputs}
                \cup {Ext(k) : k \in 1..MaxExt}

\* after the site lookup: pick licenseTerms[0] of the included enabled terms
BuyResolved(p, siteId, ipId, buyer) ==
  IF EnabledTerms(siteId) = {}
  THEN Done(p, [op |-> "buy", status |-> 400])
  ELSE \E t \in EnabledTerms(siteId) :
         Goto(p, "bCreate", [op |-> "buy", siteId |-> siteId,
                             storyIpId |-> sites[siteId].storyIpId,
                             termsId |-> t, pricePerUnit |-> terms[t].pricePerUnit,
                             buyerAddress |-> buyer])

\* a purchase is requested while the License table, counting the rows about
\* to be created, has room below the bound max
LicenseRoom(max) == Len(licenses) + InFlight({"bFindById", "bCreate"}) < max

BuyFind(p, ipId, buyer, max) ==
  /\ pc[p] = "idle"
  /\ LicenseRoom(max)
  /\ IF ~ValidAddress(buyer)
     THEN Done(p, [op |-> "buy", status |-> 400])
     ELSE IF SitesByIpId(ipId) # {}
     THEN \E s \in SitesByIpId(ipId) : BuyResolved(p, s, ipId, buyer)
     ELSE IF parseSiteIdFromIpId(ipId) # 0
     THEN Goto(p, "bFindById", [op |-> "buy", siteId |-> parseSiteIdFromIpId(ipId),
                                ipId |-> ipId, buyerAddress |-> buyer])
     ELSE Done(p, [op |-> "buy", status |-> 404])
  /\ UNCHANGED <<sites, terms, licenses, cache, now, nextExt, firstMethod, serverWallet, secret, recorded, pinVars>>

BuyFindById(p) ==
  /\ pc[p] = "bFindById"
  /\ IF loc[p].siteId \in SiteIds
     THEN BuyResolved(p, loc[p].siteId, loc[p].ipId, loc[p].buyerAddress)
     ELSE Done(p, [op |-> "buy", status |-> 404])
  /\ UNCHANGED <<sites, terms, licenses, cache, now, nextExt, firstMethod, serverWallet, secret, recorded, pinVars>>

\* proofUri of a row that has none
NullUri == [scheme |-> "null"]

\* variant: a License of the same buyer for the same terms is reused
LicenseCreate_Dedup(rows, termsId, buyer) ==
  LET same == {l \in 1..Len(rows) : rows[l].licenseTermsId = termsId
                                      /\ rows[l].buyerAddress = toLowerCase(buyer)}
  IN IF same # {} THEN [rows |-> rows, id |-> CHOOSE l \in same : TRUE]
     ELSE [rows |-> Append(rows, [licenseTermsId |-> termsId,
                                  buyerAddress |-> toLowerCase(buyer),
                                  status |-> "pending",
                                  proofSignature |-> NoResp,
                                  proofUri |-> NullUri,
                                  expiry |-> NullExpiry]),
           id |-> Len(rows) + 1]

\* prisma.license.create: a new row with the next id, whatever rows exist
LicenseCreate(rows, termsId, buyer) ==
  [rows |-> Append(rows, [licenseTermsId |-> termsId,
                          buyerAddress |-> toLowerCase(buyer),
                          status |-> "pending",
                          proofSignature |-> NoResp,
                          proofUri |-> NullUri,
                          expiry |-> NullExpiry]),
   id |-> Len(rows) + 1]

BuyCreate(p) ==
  /\ pc[p] = "bCreate"
  /\ LET created == LicenseCreate(licenses, loc[p].termsId, loc[p].buyerAddress)
     IN /\ licenses' = created.rows
        /\ Goto(p, "bActivate", loc[p] @@ [licenseId |-> created.id])
  /\ UNCHANGED <<sites, terms, cache, now, nextExt, firstMethod, serverWallet, secret, recorded, pinVars>>

\* variant: the receipt names the id the next row would get
Receipt_NextId(l) ==
  JObj(<<Prop("licenseId", JPrim(ToString(l.licenseId + 1))),
         Prop("ipId", JPrim(ToString(InvalidationIpId(l.storyIpId, l.siteId)))),
         Prop("siteId", JPrim(ToString(l.siteId))),
         Prop("buyerAddress", JPrim(ToString(toLowerCase(l.buyerAddress)))),
         Prop("issuer", JPrim(ToString(ServerAddress))),
         Prop("termsId", JPrim(ToString(l.termsId))),
         Prop("pricePerUnit", JPrim(ToString(l.pricePerUnit)))>>)

\* the receipt object, its properties in the order the literal lists them
\* (template strings and numbers print as their text)
Receipt(l) ==
  JObj(<<Prop("licenseId", JPrim(ToString(l.licenseId))),
         Prop("ipId", JPrim(ToString(InvalidationIpId(l.storyIpId, l.siteId)))),
         Prop("siteId", JPrim(ToString(l.siteId))),
         Prop("buyerAddress", JPrim(ToString(toLowerCase(l.buyerAddress)))),
         Prop("issuer", JPrim(ToString(ServerAddress))),
         Prop("termsId", JPrim(ToString(l.termsId))),
         Prop("pricePerUnit", JPrim(ToString(l.pricePerUnit)))>>)

\* variant: without the fallback, a failed upload yields no URI
uploadJson_NoFallback(pinned) ==
  [uri |-> IF pinned THEN [scheme |-> "ipfs"] ELSE NullUri, mocked |-> ~pinned]

\* uploadJson: a content URI from the pinning service or, without a token or
\* when the upload fails, from the in-memory fallback; it does not throw
uploadJson(pinned) == [uri |-> [scheme |-> "ipfs"], mocked |-> ~pinned]

\* build and sign the receipt, pin it, then store signature and proof and
\* set the status to active
BuyActivate(p, pinned) ==
  /\ pc[p] = "bActivate"
  /\ LET signature == signReceipt(Receipt(loc[p]))
         ipfsResult == uploadJson(pinned)
     IN /\ licenses' = [licenses EXCEPT ![loc[p].licenseId] =
                          [@ EXCEPT !.proofSignature = signature,
                                    !.proofUri = ipfsResult.uri,
                                    !.status = "active"]]
        /\ Goto(p, "bInvalidate", loc[p] @@ [signature |-> signature,
                                             ipfsResult |-> ipfsResult])
  /\ UNCHANGED <<sites, terms, cache, now, nextExt, firstMethod, serverWallet, secret, recorded, pinVars>>

\* signing or the update throws: the catch block answers 500
BuyFail(p) ==
  /\ pc[p] = "bActivate"
  /\ Done(p, [op |-> "buy", status |-> 500])
  /\ UNCHANGED <<sites, terms, licenses, cache, now, nextExt, firstMethod, serverWallet, secret, recorded, pinVars>>

BuyInvalidate(p) ==
  /\ pc[p] = "bInvalidate"
  /\ LET key == getLicenseCheckCacheKey(InvalidationIpId(loc[p].storyIpId, loc[p].siteId),
                                        loc[p].buyerAddress)
     IN cache' = MarkPrePurchase(CacheDelete(cache, key), loc[p].siteId, loc[p].buyerAddress)
  /\ Done(p, [op |-> "buy", status |-> 200, licenseId |-> loc[p].licenseId,
              receipt |-> Receipt(loc[p]), signature |-> loc[p].signature,
              proofUri |-> loc[p].ipfsResult.uri,
              proofMocked |-> loc[p].ipfsResult.mocked])
  /\ UNCHANGED <<sites, terms, licenses, now, nextExt, firstMethod, serverWallet, secret, recorded, pinVars>>

\* ------------------------------------------- POST /api/admin/revoke-license
RevokeFind(p, licenseId) ==
  /\ pc[p] = "idle"
  /\ IF licenseId \notin 1..Len(licenses)
     THEN Done(p, [op |-> "revoke", status |-> 404])
     ELSE IF licenses[licenseId].status = "revoked"
     THEN Done(p, [op |-> "revoke", status |-> 400])
     ELSE LET site == terms[licenses[licenseId].licenseTermsId].siteId IN
          Goto(p, "rUpdate", [op |-> "revoke", licenseId |-> licenseId,
                              ipId |-> InvalidationIpId(sites[site].storyIpId, site),
                              buyerAddress |-> licenses[licenseId].buyerAddress,
                              status |-> licenses[licenseId].status])
  /\ UNCHANGED <<sites, terms, licenses, cache, now, nextExt, firstMethod, serverWallet, secret, recorded, pinVars>>

RevokeUpdate(p) ==
  /\ pc[p] = "rUpdate"
  /\ licenses' = [licenses EXCEPT ![loc[p].licenseId] = [@ EXCEPT !.status = "revoked"]]
  /\ Goto(p, "rInvalidate", loc[p])
  /\ UNCHANGED <<sites, terms, cache, now, nextExt, firstMethod, serverWallet, secret, recorded, pinVars>>

RevokeInvalidate(p) ==
  /\ pc[p] = "rInvalidate"
  /\ LET key == getLicenseCheckCacheKey(loc[p].ipId, loc[p].buyerAddress)
     IN cache' = MarkPreRevoke(CacheDelete(cache, key), loc[p].licenseId)
  /\ Done(p, [op |-> "revoke", status |-> 200, licenseId |-> loc[p].licenseId])
  /\ UNCHANGED <<sites, terms, licenses, now, nextExt, firstMethod, serverWallet, secret, recorded, pinVars>>

\* ---------------------------------------------------- GET /api/check-license
CheckGet(p, ipId, buyer) ==
  /\ pc[p] = "idle"
  /\ LET normalizedBuyer == toLowerCase(buyer)
         key == getLicenseCheckCacheKey(ipId, normalizedBuyer)
         cached == CacheGet(cache, key)
     IN /\ cache' = CacheAfterGet(cache, key)
        /\ IF cached # NoResp
           THEN Done(p, [op |-> "check", status |-> 200, ipId |-> ipId,
                         buyer |-> normalizedBuyer,
                         hasLicense |-> cached.hasLicense,
                         licenseId |-> cached.licenseId, cached |-> TRUE])
           ELSE Goto(p, "cFindSite", [op |-> "check", ipId |-> ipId,
                                      buyer |-> normalizedBuyer])
  /\ UNCHANGED <<sites, terms, licenses, now, nextExt, firstMethod, serverWallet, secret, recorded, pinVars>>

CheckFindSite(p) ==
  /\ pc[p] = "cFindSite"
  /\ IF SitesByIpId(loc[p].ipId) # {}
     THEN \E s \in SitesByIpId(loc[p].ipId) :
            Goto(p, "cFindLicense", loc[p] @@ [siteId |-> s])
     ELSE IF parseSiteIdFromIpId(loc[p].ipId) # 0
     THEN Goto(p, "cFindById", loc[p] @@ [siteId |-> parseSiteIdFromIpId(loc[p].ipId)])
     ELSE Done(p, [op |-> "check", status |-> 404])
  /\ UNCHANGED <<sites, terms, licenses, cache, now, nextExt, firstMethod, serverWallet, secret, recorded, pinVars>>

CheckFindById(p) ==
  /\ pc[p] = "cFindById"
  /\ IF loc[p].siteId \in SiteIds
     THEN Goto(p, "cFindLicense", loc[p])
     ELSE Done(p, [op |-> "check", status |-> 404])
  /\ UNCHANGED <<sites, terms, licenses, cache, now, nextExt, firstMethod, serverWallet, secret, recorded, pinVars>>

\* prisma.license.findFirst: any matching row (0: none)
CheckFindLicense(p) ==
  /\ pc[p] = "cFindLicense"
  /\ LET found == ActiveLicenses(loc[p].siteId, loc[p].buyer) IN
     \E l \in (IF found = {} THEN {0} ELSE found) :
       Goto(p, "cSet", loc[p] @@ [licenseId |-> l])
  /\ UNCHANGED <<sites, terms, licenses, cache, now, nextExt, firstMethod, serverWallet, secret, recorded, pinVars>>

CheckSet(p) ==
  /\ pc[p] = "cSet"
  /\ LET hasLicense == loc[p].licenseId # 0
         key == getLicenseCheckCacheKey(loc[p].ipId, loc[p].buyer)
     IN /\ cache' = CacheSet(cache, key, [hasLicense |-> hasLicense,
                                          licenseId |-> loc[p].licenseId], LicenseCheckTtl)
        /\ Done(p, [op |-> "check", status |-> 200, ipId |-> loc[p].ipId,
                    buyer |-> loc[p].buyer, hasLicense |-> hasLicense,
                    licenseId |-> loc[p].licenseId, cached |-> FALSE])
  /\ UNCHANGED <<sites, terms, licenses, now, nextExt, firstMethod, serverWallet, secret, recorded, pinVars>>

\* --------------------------------------------------- POST /api/validate-proof
\* Receipt objects as submitted: up to MaxFields properties, in any order,
\* whose values are a number, an object or an array holding an object, the
\* nested objects with their keys in either order.
ReceiptKeys == {"__proto__", "a", "z"}
NestedAZ == JObj(<<Prop("a", JPrim("1")), Prop("z", JPrim("2"))>>)
NestedZA == JObj(<<Prop("z", JPrim("2")), Prop("a", JPrim("1"))>>)
ReceiptValues == {JPrim("1"), NestedAZ, NestedZA, JArr(<<NestedAZ>>), JArr(<<NestedZA>>)}

ReceiptInputs ==
  {JObj(f) : f \in {g \in UNION {[1..n -> [k : ReceiptKeys, v : ReceiptValues]] : n \in 0..MaxFields} :
                     \A i, j \in DOMAIN g : i # j => g[i].k # g[j].k}}

\* Signature strings as submitted: the empty string, a string that is no
\* signature, and signatures made over a canonical receipt with the
\* server's key or with a buyer's key
EmptySignature == [wellFormed |-> FALSE, signer |-> Addr(0, TRUE), message |-> <<>>]
SignatureInputs ==
  {EmptySignature, MalformedSignature}
    \cup {signReceipt(r) : r \in ReceiptInputs}
    \cup {Signature(Addr(1, FALSE), stableStringify(JObj(<<Prop("a", v)>>))) : v \in ReceiptValues}

\* Objects with integer keys, as JSON.parse builds them: up to MaxFields
\* properties in enumeration order, the values a number, an object or an
\* array holding an object
IndexKeys == {"10", "9", "a"}
NestedIndex == JObj(<<Prop("9", JPrim("1")), Prop("10", JPrim("2"))>>)
IndexValues == {JPrim("1"), NestedIndex, NestedZA, JArr(<<NestedIndex, NestedAZ>>)}
IndexedInputs ==
  {JObj(f) : f \in {g \in UNION {[1..n -> [k : IndexKeys, v : IndexValues]] : n \in 0..MaxFields} :
                     /\ \A i, j \in DOMAIN g : i # j => g[i].k # g[j].k
                     /\ \A i \in DOMAIN g : g = InsertProperty(SubSeq(g, 1, i - 1) \o SubSeq(g, i + 1, Len(g)),
                                                               g[i].k, g[i].v) \/ ArrayIndex(g[i].k) < 0}}

\* the handler has no await: one step from the request received to the
\* response (the request fields are kept with the response)
ValidateProof(p) ==
  /\ pc[p] = "vpReceived"
  /\ IF loc[p].signature = EmptySignature
     THEN Done(p, [op |-> "validate-proof", status |-> 400])
     ELSE LET result == verifyReceipt(loc[p].receiptJson, loc[p].signature) IN
          Done(p, [op |-> "validate-proof", status |-> 200,
                   valid |-> result.valid, signer |-> result.signer,
                   expectedSigner |-> ServerAddress,
                   receiptJson |-> loc[p].receiptJson,
                   signature |-> loc[p].signature])
  /\ UNCHANGED <<sites, terms, licenses, cache, now, nextExt, firstMethod, serverWallet, secret, recorded, pinVars>>

\* ---------------------------------------------------------- signing identity
\* values the environment variable can take: absent, the configured key,
\* another key
SecretInputs == {0, ConfiguredKey, 7}

\* process.env.SERVER_SIGNER_PRIVATE_KEY is set, changed or removed
SetSecret(k) ==
  /\ k # secret
  /\ secret' = k
  /\ resp' = NoResp
  /\ UNCHANGED <<sites, terms, licenses, cache, now, nextExt, firstMethod, pc, loc, serverWallet, recorded, pinVars>>

\* initServerSigner(): throws when the secret is absent, else replaces the
\* wallet by one made from the secret
InitServerSigner ==
  /\ serverWallet' = IF secret = 0 THEN serverWallet ELSE secret
  /\ resp' = NoResp
  /\ UNCHANGED <<sites, terms, licenses, cache, now, nextExt, firstMethod, pc, loc, secret, recorded, pinVars>>

\* a client submits to POST /api/validate-proof the receipt and signature
\* of the response it was last sent (a purchase or an earlier validation)
ProofReceived(p) ==
  /\ pc[p] = "idle"
  /\ resp.op \in {"buy", "validate-proof"}
  /\ Goto(p, "vpReceived",
          [op |-> "validate-proof",
           receiptJson |-> IF resp.op = "buy" THEN resp.receipt ELSE resp.receiptJson,
           signature |-> resp.signature,
           validBefore |-> resp.op = "validate-proof" /\ resp.valid])
  /\ UNCHANGED <<sites, terms, licenses, cache, now, nextExt, firstMethod, serverWallet, secret, recorded, pinVars>>

\* ------------------------------------------------------------ time, sweep
Tick ==
  /\ now + TickSeconds <= MaxTicks * TickSeconds
  /\ now' = now + TickSeconds
  /\ resp' = NoResp
  /\ UNCHANGED <<sites, terms, licenses, cache, nextExt, firstMethod, pc, loc, serverWallet, secret, recorded, pinVars>>

\* InMemoryCache.cleanup, run by the interval timer
Cleanup ==
  /\ \E k \in DOMAIN cache : Expired(cache[k])
  /\ cache' = [k \in {j \in DOMAIN cache : ~Expired(cache[j])} |-> cache[k]]
  /\ resp' = NoResp
  /\ UNCHANGED <<sites, terms, licenses, now, nextExt, firstMethod, pc, loc, serverWallet, secret, recorded, pinVars>>

\* The handlers that write the store, started on an empty store.  GET
\* /check-license, the only reader of the cache, writes nothing to the store
\* and is left to SpecLicense.
Next ==
  \E p \in Procs :
    \/ \E d \in DomainInputs, w \in OwnerInputs : RegisterFind(p, d, w)
    \/ RegisterCreate(p)
    \/ \E s \in SiteIdInputs, m \in MethodInputs : VerifyFind(p, s, m)
    \/ \E f \in BOOLEAN, v \in BOOLEAN : VerifyStrategy(p, f, v)
    \/ VerifyUpdate(p)
    \/ \E s \in SiteIdInputs : TestMintFind(p, s)
    \/ TestMintUpdate(p)
    \/ \E s \in SiteIdInputs, in \in TermsInputs : SetTermsFind(p, s, in)
    \/ SetTermsFindTerms(p)
    \/ SetTermsWrite(p)
    \/ \E i \in IpIdInputs, b \in BuyerInputs : BuyFind(p, i, b, MaxLicenses)
    \/ BuyFindById(p)
    \/ BuyCreate(p)
    \/ \E pinned \in BOOLEAN : BuyActivate(p, pinned)
    \/ BuyFail(p)
    \/ BuyInvalidate(p)
    \/ \E l \in 1..MaxLicenses : RevokeFind(p, l)
    \/ RevokeUpdate(p)
    \/ RevokeInvalidate(p)

Spec == Init /\ [][Next]_vars

\* Licensing and the license-check cache, started on a store that holds one
\* verified Site with enabled terms, as left by register, verify (dns) and
\* set-terms; the asset identifier is the local fallback or a minted one.
InitLicensed ==
  /\ SignerStarted
  /\ recorded = RecordedResponses
  /\ \E ipId \in {Local(1), Ext(1)} :
       /\ sites = <<[domain |-> NormalizeDomain(RawDomain("example.com", FALSE, FALSE, FALSE)),
                     ownerAddress |-> Addr(2, FALSE),
                     verificationToken |-> VerificationToken(1),
                     verified |-> TRUE,
                     verificationMethod |-> "dns",
                     storyIpId |-> ipId]>>
       /\ nextExt = IF ipId.kind = "ext" THEN 2 ELSE 1
  /\ terms = <<[siteId |-> 1, allowedActions |-> <<"SCRAPE">>, priceModel |-> "FLAT",
                pricePerUnit |-> 50, enabled |-> TRUE]>>
  /\ licenses = <<>>
  /\ cache = [k \in {} |-> NoResp]
  /\ now = 0
  /\ firstMethod = <<"dns">>
  /\ pc = [p \in Procs |-> "idle"]
  /\ loc = [p \in Procs |-> NoLoc]
  /\ resp = NoResp
  /\ PinWorkerLoaded

NextLicense ==
  \/ Tick
  \/ Cleanup
  \/ \E p \in Procs :
    \/ \E i \in IpIdInputs, b \in BuyerInputs : BuyFind(p, i, b, MaxLicenses)
    \/ BuyFindById(p)
    \/ BuyCreate(p)
    \/ \E pinned \in BOOLEAN : BuyActivate(p, pinned)
    \/ BuyFail(p)
    \/ BuyInvalidate(p)
    \/ \E l \in 1..MaxLicenses : RevokeFind(p, l)
    \/ RevokeUpdate(p)
    \/ RevokeInvalidate(p)
    \/ \E i \in IpIdInputs, b \in BuyerInputs \ {Addr(0, TRUE)} : CheckGet(p, i, b)
    \/ CheckFindSite(p)
    \/ CheckFindById(p)
    \/ CheckFindLicense(p)
    \/ CheckSet(p)

\* (both initial stores are reachable under Spec with every handler idle)
SpecLicense == InitLicensed /\ [][NextLicense]_vars

\* Purchases only, on the same initial stores, with room for several
\* License rows.
NextPurchase ==
  \E p \in Procs :
    \/ \E i \in IpIdInputs, b \in BuyerInputs : BuyFind(p, i, b, MaxPurchases)
    \/ BuyFindById(p)
    \/ BuyCreate(p)
    \/ \E pinned \in BOOLEAN : BuyActivate(p, pinned)
    \/ BuyFail(p)
    \/ BuyInvalidate(p)

SpecPurchase == InitLicensed /\ [][NextPurchase]_vars

\* The license-check cache alone: checks and the clock on a store that no
\* purchase or revoke changes; the buyer holds an active License (as left by
\* a completed purchase) or none.
PurchaseMade(storyIpId) ==
  LET l == [licenseId |-> 1, siteId |-> 1, storyIpId |-> storyIpId, termsId |-> 1,
            pricePerUnit |-> 50, buyerAddress |-> Addr(1, FALSE)]
  IN <<[licenseTermsId |-> 1,
        buyerAddress |-> toLowerCase(l.buyerAddress),
        status |-> "active",
        proofSignature |-> signReceipt(Receipt(l)),
        proofUri |-> uploadJson(TRUE).uri,
        expiry |-> NullExpiry]>>

InitCache ==
  /\ SignerStarted
  /\ recorded = RecordedResponses
  /\ \E ipId \in {Local(1), Ext(1)} :
       /\ sites = <<[domain |-> NormalizeDomain(RawDomain("example.com", FALSE, FALSE, FALSE)),
                     ownerAddress |-> Addr(2, FALSE),
                     verificationToken |-> VerificationToken(1),
                     verified |-> TRUE,
                     verificationMethod |-> "dns",
                     storyIpId |-> ipId]>>
       /\ nextExt = IF ipId.kind = "ext" THEN 2 ELSE 1
       /\ licenses \in {<<>>, PurchaseMade(ipId)}
  /\ terms = <<[siteId |-> 1, allowedActions |-> <<"SCRAPE">>, priceModel |-> "FLAT",
                pricePerUnit |-> 50, enabled |-> TRUE]>>
  /\ cache = [k \in {} |-> NoResp]
  /\ now = 0
  /\ firstMethod = <<"dns">>
  /\ pc = [p \in Procs |-> "idle"]
  /\ loc = [p \in Procs |-> NoLoc]
  /\ resp = NoResp
  /\ PinWorkerLoaded

NextCache ==
  \/ Tick
  \/ Cleanup
  \/ \E p \in Procs :
    \/ \E i \in IpIdInputs, b \in BuyerInputs \ {Addr(0, TRUE)} : CheckGet(p, i, b)
    \/ CheckFindSite(p)
    \/ CheckFindById(p)
    \/ CheckFindLicense(p)
    \/ CheckSet(p)

SpecCache == InitCache /\ [][NextCache]_vars

\* Receipt validation, a pure function of the request: one handler has
\* received a request, drawn from the inputs, and answers it.
InitProof ==
  /\ SignerStarted
  /\ recorded = RecordedResponses
  /\ sites = <<>>
  /\ terms = <<>>
  /\ licenses = <<>>
  /\ cache = [k \in {} |-> NoResp]
  /\ now = 0
  /\ nextExt = 1
  /\ firstMethod = <<>>
  /\ \E q \in Procs : \E r \in ReceiptInputs, g \in SignatureInputs :
       /\ pc = [p \in Procs |-> IF p = q THEN "vpReceived" ELSE "idle"]
       /\ loc = [p \in Procs |-> IF p = q THEN [op |-> "validate-proof",
                                                receiptJson |-> r, signature |-> g]
                                 ELSE NoLoc]
  /\ resp = NoResp
  /\ PinWorkerLoaded

NextProof == \E p \in Procs : ValidateProof(p)

SpecProof == InitProof /\ [][NextProof]_vars

\* The signing identity: purchases sign receipts and clients have them
\* validated while the secret changes and initServerSigner is called again.
NextSigner ==
  \/ \E k \in SecretInputs : SetSecret(k)
  \/ InitServerSigner
  \/ \E p \in Procs :
    \/ \E i \in IpIdInputs, b \in BuyerInputs : BuyFind(p, i, b, MaxLicenses)
    \/ BuyFindById(p)
    \/ BuyCreate(p)
    \/ \E pinned \in BOOLEAN : BuyActivate(p, pinned)
    \/ BuyFail(p)
    \/ BuyInvalidate(p)
    \/ ProofReceived(p)
    \/ ValidateProof(p)

SpecSigner == InitLicensed /\ [][NextSigner]_vars

\* The strategies, pure functions of their arguments and of what the live
\* domain answers: the process was started with one secret or another, a
\* Site has been registered with the owner's address in either spelling,
\* and one strategy call is under way.
InitStrategy ==
  /\ \E k \in SecretInputs \ {0} : secret = k /\ serverWallet = k
  /\ recorded = {<<"strategy", 200>>}
  /\ \E w \in OwnerSpellings :
       sites = <<[domain |-> NormalizeDomain(RawDomain("example.com", FALSE, FALSE, FALSE)),
                  ownerAddress |-> w,
                  verificationToken |-> VerificationToken(1),
                  verified |-> FALSE,
                  verificationMethod |-> "null",
                  storyIpId |-> NullIp]>>
  /\ terms = <<>>
  /\ licenses = <<>>
  /\ cache = [k \in {} |-> NoResp]
  /\ now = 0
  /\ nextExt = 1
  /\ firstMethod = <<"null">>
  /\ \E q \in Procs, m \in Methods :
       \E o \in StrategyOutcomes(m, sites[1].domain, sites[1].verificationToken,
                                 sites[1].ownerAddress) :
         /\ pc = [p \in Procs |-> IF p = q THEN "strategy" ELSE "idle"]
         /\ loc = [p \in Procs |-> IF p = q
                                   THEN [op |-> "strategy", method |-> m,
                                         domain |-> sites[1].domain,
                                         token |-> sites[1].verificationToken,
                                         owner |-> sites[1].ownerAddress,
                                         outcome |-> o]
                                   ELSE NoLoc]
  /\ resp = NoResp
  /\ PinWorkerLoaded

NextStrategy == \E p \in Procs : CheckStrategy(p)

SpecStrategy == InitStrategy /\ [][NextStrategy]_vars

\* Registration alone, with a second domain, every response recorded.
OtherDomain == RawDomain("example.org", FALSE, FALSE, FALSE)

InitRegister ==
  /\ SignerStarted
  /\ recorded = {<<"register", st>> : st \in {201, 400, 409, 500}}
  /\ sites = <<>>
  /\ terms = <<>>
  /\ licenses = <<>>
  /\ cache = [k \in {} |-> NoResp]
  /\ now = 0
  /\ nextExt = 1
  /\ firstMethod = <<>>
  /\ pc = [p \in Procs |-> "idle"]
  /\ loc = [p \in Procs |-> NoLoc]
  /\ resp = NoResp
  /\ PinWorkerLoaded

NextRegister ==
  \E p \in Procs :
    \/ \E d \in RegisterDomainInputs \cup {OtherDomain}, w \in OwnerInputs \cup OwnerSpellings :
         RegisterFind(p, d, w)
    \/ RegisterCreate(p)

SpecRegister == InitRegister /\ [][NextRegister]_vars

\* Requests with valid and invalid input on a store that holds a verified
\* Site with enabled terms (at another price than the one requests ask
\* for), the rejections of invalid input recorded in
\* place of the successes.  (The Site is verified and its domain taken, so
\* neither verify nor register gets past its first query.)
InitInput ==
  /\ SignerStarted
  /\ recorded = {<<o, 400>> : o \in {"register", "verify", "set-terms", "buy"}}
  /\ \E ipId \in {Local(1), Ext(1)} :
       /\ sites = <<[domain |-> NormalizeDomain(RawDomain("example.com", FALSE, FALSE, FALSE)),
                     ownerAddress |-> Addr(2, FALSE),
                     verificationToken |-> VerificationToken(1),
                     verified |-> TRUE,
                     verificationMethod |-> "dns",
                     storyIpId |-> ipId]>>
       /\ nextExt = IF ipId.kind = "ext" THEN 2 ELSE 1
  /\ terms = <<[siteId |-> 1, allowedActions |-> <<"SCRAPE">>, priceModel |-> "FLAT",
                pricePerUnit |-> 10, enabled |-> TRUE]>>
  /\ licenses = <<>>
  /\ cache = [k \in {} |-> NoResp]
  /\ now = 0
  /\ firstMethod = <<"dns">>
  /\ pc = [p \in Procs |-> "idle"]
  /\ loc = [p \in Procs |-> NoLoc]
  /\ resp = NoResp
  /\ PinWorkerLoaded

NextInput ==
  \E p \in Procs :
    \/ \E d \in RegisterDomainInputs, w \in OwnerInputs : RegisterFind(p, d, w)
    \/ \E s \in SiteIdInputs, m \in MethodInputs : VerifyFind(p, s, m)
    \/ \E s \in SiteIdInputs, in \in TermsInputs : SetTermsFind(p, s, in)
    \/ SetTermsFindTerms(p)
    \/ SetTermsWrite(p)
    \/ \E i \in IpIdInputs, b \in BuyerInputs : BuyFind(p, i, b, MaxLicenses)
    \/ BuyFindById(p)
    \/ BuyCreate(p)
    \/ \E pinned \in BOOLEAN : BuyActivate(p, pinned)
    \/ BuyFail(p)
    \/ BuyInvalidate(p)

SpecInput == InitInput /\ [][NextInput]_vars

\* Canonicalization, a pure function of the submitted object: a request
\* whose receipt has integer keys is answered.
InitCanonical ==
  /\ SignerStarted
  /\ recorded = RecordedResponses
  /\ sites = <<>>
  /\ terms = <<>>
  /\ licenses = <<>>
  /\ cache = [k \in {} |-> NoResp]
  /\ now = 0
  /\ nextExt = 1
  /\ firstMethod = <<>>
  /\ \E q \in Procs : \E r \in IndexedInputs \cup {NestedZA} :
     \E g \in {MalformedSignature, signReceipt(r)} :
       /\ pc = [p \in Procs |-> IF p = q THEN "vpReceived" ELSE "idle"]
       /\ loc = [p \in Procs |-> IF p = q THEN [op |-> "validate-proof",
                                                receiptJson |-> r, signature |-> g]
                                 ELSE NoLoc]
  /\ resp = NoResp
  /\ PinWorkerLoaded

SpecCanonical == InitCanonical /\ [][NextProof]_vars

\* GET /check-license against every kind of License row the handlers leave:
\* the store holds one verified Site with enabled terms and no License, or
\* one License that is pending (purchase under way or failed), active or
\* revoked, bought by the checking buyer or by someone else; revokes run
\* beside the checks.
CheckBuyers == {Addr(1, FALSE), Addr(1, TRUE)}

LicenseRow(storyIpId, buyer, status) ==
  LET l == [licenseId |-> 1, siteId |-> 1, storyIpId |-> storyIpId, termsId |-> 1,
            pricePerUnit |-> 50, buyerAddress |-> buyer]
      pending == LicenseCreate(<<>>, 1, buyer).rows[1]
  IN IF status = "pending" THEN pending
     ELSE [pending EXCEPT !.status = status,
                          !.proofSignature = signReceipt(Receipt(l)),
                          !.proofUri = uploadJson(TRUE).uri]

InitCheck ==
  /\ SignerStarted
  /\ recorded = {<<"check", 200>>}
  /\ \E ipId \in {Local(1), Ext(1)} :
       /\ sites = <<[domain |-> NormalizeDomain(RawDomain("example.com", FALSE, FALSE, FALSE)),
                     ownerAddress |-> Addr(2, FALSE),
                     verificationToken |-> VerificationToken(1),
                     verified |-> TRUE,
                     verificationMethod |-> "dns",
                     storyIpId |-> ipId]>>
       /\ nextExt = IF ipId.kind = "ext" THEN 2 ELSE 1
       /\ \/ licenses = <<>>
          \/ \E b \in {Addr(1, FALSE), Addr(3, FALSE)} :
             \E st \in {"pending", "active", "revoked"} :
               licenses = <<LicenseRow(ipId, b, st)>>
  /\ terms = <<[siteId |-> 1, allowedActions |-> <<"SCRAPE">>, priceModel |-> "FLAT",
                pricePerUnit |-> 50, enabled |-> TRUE]>>
  /\ cache = [k \in {} |-> NoResp]
  /\ now = 0
  /\ firstMethod = <<"dns">>
  /\ pc = [p \in Procs |-> "idle"]
  /\ loc = [p \in Procs |-> NoLoc]
  /\ resp = NoResp
  /\ PinWorkerLoaded

NextCheck ==
  \E p \in Procs :
    \/ \E l \in 1..MaxLicenses : RevokeFind(p, l)
    \/ RevokeUpdate(p)
    \/ RevokeInvalidate(p)
    \/ \E i \in IpIdInputs, b \in CheckBuyers : CheckGet(p, i, b)
    \/ CheckFindSite(p)
    \/ CheckFindById(p)
    \/ CheckFindLicense(p)
    \/ CheckSet(p)

SpecCheck == InitCheck /\ [][NextCheck]_vars

\* Purchase, revoke and check-license for one buyer who writes the address in
\* mixed case or in lower case, on the licensed store.
InitCase ==
  /\ SignerStarted
  /\ recorded = {<<"buy", 200>>}
  /\ \E ipId \in {Local(1), Ext(1)} :
       /\ sites = <<[domain |-> NormalizeDomain(RawDomain("example.com", FALSE, FALSE, FALSE)),
                     ownerAddress |-> Addr(2, FALSE),
                     verificationToken |-> VerificationToken(1),
                     verified |-> TRUE,
                     verificationMethod |-> "dns",
                     storyIpId |-> ipId]>>
       /\ nextExt = IF ipId.kind = "ext" THEN 2 ELSE 1
  /\ terms = <<[siteId |-> 1, allowedActions |-> <<"SCRAPE">>, priceModel |-> "FLAT",
                pricePerUnit |-> 50, enabled |-> TRUE]>>
  /\ licenses = <<>>
  /\ cache = [k \in {} |-> NoResp]
  /\ now = 0
  /\ firstMethod = <<"dns">>
  /\ pc = [p \in Procs |-> "idle"]
  /\ loc = [p \in Procs |-> NoLoc]
  /\ resp = NoResp
  /\ PinWorkerLoaded

NextCase ==
  \E p \in Procs :
    \/ \E i \in IpIdInputs, b \in CheckBuyers : BuyFind(p, i, b, MaxLicenses)
    \/ BuyFindById(p)
    \/ BuyCreate(p)
    \/ \E pinned \in BOOLEAN : BuyActivate(p, pinned)
    \/ BuyFail(p)
    \/ BuyInvalidate(p)
    \/ \E l \in 1..MaxLicenses : RevokeFind(p, l)
    \/ RevokeUpdate(p)
    \/ RevokeInvalidate(p)
    \/ \E i \in IpIdInputs, b \in CheckBuyers : CheckGet(p, i, b)
    \/ CheckFindSite(p)
    \/ CheckFindById(p)
    \/ CheckFindLicense(p)
    \/ CheckSet(p)

SpecCase == InitCase /\ [][NextCase]_vars

\* Registration of one host typed in every way: in upper case, with a scheme,
\* with trailing slashes, with white space around it.
TypedDomains ==
  {Spaced(RawDomain("example.com", u, s, t), lead, trail) :
     u \in {FALSE}, s \in BOOLEAN, t \in BOOLEAN, lead \in BOOLEAN, trail \in BOOLEAN}
    \cup {RawDomain("example.com", TRUE, TRUE, TRUE)}

InitTyped ==
  /\ SignerStarted
  /\ recorded = {<<"register", 201>>}
  /\ sites = <<>>
  /\ terms = <<>>
  /\ licenses = <<>>
  /\ cache = [k \in {} |-> NoResp]
  /\ now = 0
  /\ nextExt = 1
  /\ firstMethod = <<>>
  /\ pc = [p \in Procs |-> "idle"]
  /\ loc = [p \in Procs |-> NoLoc]
  /\ resp = NoResp
  /\ PinWorkerLoaded

NextTyped ==
  \E p \in Procs :
    \/ \E d \in TypedDomains : RegisterFind(p, d, Addr(2, FALSE))
    \/ RegisterCreate(p)

SpecTyped == InitTyped /\ [][NextTyped]_vars

\* ------------------------------------------------------------ pin worker
\* Jobs carry the number under which they were enqueued (id), so that two
\* jobs for the same License are told apart.
PinJob(id, licenseId) == [id |-> id, licenseId |-> licenseId, retries |-> 0]

RunningLoops == {l \in 1..MaxLoops : pinLoops[l].at # "none"}
FreeLoops == {l \in 1..MaxLoops : pinLoops[l].at = "none"}

\* what processJob meets: no pinning token; an upload answered by the mock
\* store; a real pin followed by the update of the License row; an upload
\* or an update that throws
PinEnvs == {"unconfigured", "mocked", "pinned", "threw"}

\* processJob: whether it throws (the update of a missing row does)
processJobThrows(job, env) ==
  \/ env = "threw"
  \/ env = "pinned" /\ job.licenseId \notin 1..Len(licenses)

\* the License table after processJob: a real pin stores its URI
processJobRows(job, env) ==
  IF env = "pinned" /\ job.licenseId \in 1..Len(licenses)
  THEN [licenses EXCEPT ![job.licenseId] = [@ EXCEPT !.proofUri = [scheme |-> "ipfs"]]]
  ELSE licenses

\* enqueuePinJob: push, then processQueue() unless the flag is set.
\* processQueue up to its first await: it sets the flag, shifts the oldest
\* job off the queue and calls processJob on it; the call occupies the
\* lowest free loop slot.
enqueuePinJob(licenseId) ==
  /\ Len(attempts) < MaxJobs
  /\ LET job == PinJob(Len(attempts) + 1, licenseId)
         q == Append(pinQueue, job)
     IN IF ~isProcessing
        THEN /\ FreeLoops # {}
             /\ LET l == CHOOSE f \in FreeLoops : \A g \in FreeLoops : f <= g IN
                /\ isProcessing' = TRUE
                /\ pinQueue' = Tail(q)
                /\ pinLoops' = [pinLoops EXCEPT ![l] = [at |-> "job", job |-> Head(q)]]
                /\ attempts' = [i \in 1..Len(attempts) + 1 |->
                                  (IF i <= Len(attempts) THEN attempts[i] ELSE 0)
                                    + (IF i = Head(q).id THEN 1 ELSE 0)]
        ELSE /\ pinQueue' = q
             /\ attempts' = Append(attempts, 0)
             /\ UNCHANGED <<isProcessing, pinLoops>>
  /\ resp' = NoResp
  /\ UNCHANGED <<sites, terms, licenses, cache, now, nextExt, firstMethod, pc, loc,
                 serverWallet, secret, recorded>>

\* variant: one retry more
RetriesLeft_OneMore(job) == job.retries <= MaxRetries

\* if (job.retries < 3)
RetriesLeft(job) == job.retries < MaxRetries

\* the awaited processJob settles in loop l: on an exception the job goes
\* back to the end of the queue while it has retries left; then the loop
\* waits for its 100 ms timer
JobSettled(l, env) ==
  /\ pinLoops[l].at = "job"
  /\ LET job == pinLoops[l].job IN
     /\ licenses' = processJobRows(job, env)
     /\ pinQueue' = IF processJobThrows(job, env) /\ RetriesLeft(job)
                    THEN Append(pinQueue, [job EXCEPT !.retries = @ + 1])
                    ELSE pinQueue
  /\ pinLoops' = [pinLoops EXCEPT ![l] = [at |-> "delay", job |-> NoJob]]
  /\ resp' = NoResp
  /\ UNCHANGED <<sites, terms, cache, now, nextExt, firstMethod, pc, loc,
                 serverWallet, secret, recorded, isProcessing, attempts>>

\* the timer of loop l fires: the while condition is tested again; the loop
\* takes the next job or ends and clears the flag
TimerFired(l) ==
  /\ pinLoops[l].at = "delay"
  /\ IF Len(pinQueue) > 0
     THEN /\ pinQueue' = Tail(pinQueue)
          /\ pinLoops' = [pinLoops EXCEPT ![l] = [at |-> "job", job |-> Head(pinQueue)]]
          /\ attempts' = [attempts EXCEPT ![Head(pinQueue).id] = @ + 1]
          /\ UNCHANGED isProcessing
     ELSE /\ isProcessing' = FALSE
          /\ pinLoops' = [pinLoops EXCEPT ![l] = NoLoop]
          /\ UNCHANGED <<pinQueue, attempts>>
  /\ resp' = NoResp
  /\ UNCHANGED <<sites, terms, licenses, cache, now, nextExt, firstMethod, pc, loc,
                 serverWallet, secret, recorded>>

\* clearQueue: pinQueue.length = 0; isProcessing = false
clearQueue ==
  /\ pinQueue' = <<>>
  /\ isProcessing' = FALSE
  /\ resp' = NoResp
  /\ UNCHANGED <<sites, terms, licenses, cache, now, nextExt, firstMethod, pc, loc,
                 serverWallet, secret, recorded, pinLoops, attempts>>

\* The pin worker on a store that holds one active License: jobs are
\* enqueued for that License and for an id no row has.
PinLicenseInputs == {1, 2}

NextPin ==
  \/ \E licenseId \in PinLicenseInputs : enqueuePinJob(licenseId)
  \/ \E l \in 1..MaxLoops, env \in PinEnvs : JobSettled(l, env)
  \/ \E l \in 1..MaxLoops : TimerFired(l)
  \/ clearQueue

SpecPin == InitCache /\ [][NextPin]_vars

\* The same with the scheduling of the event loop: a promise that a loop
\* awaits settles and a timer that was set fires.
SpecPinLive ==
  /\ InitCache
  /\ [][NextPin]_vars
  /\ \A l \in 1..MaxLoops :
       /\ WF_vars(\E env \in PinEnvs : JobSettled(l, env))
       /\ WF_vars(TimerFired(l))

\* ===================================================================== claims
LicenseIds == 1..Len(licenses)

\* the cache entry a recorded cache-hit response was read from
HitEntry == cache[getLicenseCheckCacheKey(resp.ipId, resp.buyer)]
CacheHit == resp.op = "check" /\ resp.cached

\* a purchase or revoke has written the store but not yet invalidated
StateChangeInFlight == \E q \in Procs : pc[q] \in {"bInvalidate", "rInvalidate"}

\* C1: once a License's stored status is revoked it is never afterwards
\* active or pending (revoked is terminal).
C1_RevokedIsTerminal ==
  [][\A l \in LicenseIds :
       licenses[l].status = "revoked" => licenses'[l].status = "revoked"]_vars

\* C2: after a revoke has completed, no check of that license's buyer and
\* asset, under any identifier form, is answered with a cached
\* hasLicense:true that was stored before the revoke.
C2_NoStalePositiveAfterRevoke ==
  (CacheHit /\ resp.hasLicense) => ~HitEntry.preRevoke

\* C3: after a purchase has returned success, a check for its buyer and asset
\* is not answered hasLicense:false from an entry cached before the purchase
\* while the purchased license is active in storage.
C3_CheckSeesPurchase ==
  (CacheHit /\ ~resp.hasLicense /\ HitEntry.prePurchase)
    => ActiveLicenses(ResolveSite(resp.ipId), resp.buyer) = {}

\* C4: once a check and a concurrent purchase or revoke have both finished,
\* no check is answered from a cache entry, written after the invalidation,
\* that contradicts the stored license state.
C4_NoStaleEntryAfterRace ==
  (CacheHit /\ ~StateChangeInFlight /\ ~HitEntry.preRevoke /\ ~HitEntry.prePurchase)
    => (resp.hasLicense <=> ActiveLicenses(ResolveSite(resp.ipId), resp.buyer) # {})

\* C5: each Site has at most one LicenseTerms row with enabled = true.
C5_OneEnabledTermsPerSite ==
  \A s \in SiteIds : Cardinality(EnabledTerms(s)) <= 1

\* a verify handler writes the Site after its strategy, run against the
\* Site's domain and token, reported success
VerifiedByStrategy(s) ==
  \E p \in Procs :
    /\ pc[p] = "vUpdate" /\ pc'[p] = "idle"
    /\ loc[p].siteId = s
    /\ loc[p].method \in {"dns", "meta", "file"}
    /\ loc[p].domain = sites[s].domain
    /\ loc[p].token = sites[s].verificationToken
    /\ loc[p].found
    /\ loc[p].method = "file" => loc[p].valid

\* a test-mint handler writes the Site
VerifiedByTestMint(s) ==
  \E p \in Procs :
    /\ pc[p] = "tmUpdate" /\ pc'[p] = "idle"
    /\ loc[p].siteId = s
    /\ sites'[s].verificationMethod = "dev-test"

\* C6 (as claimed): a Site's verified flag changes from false to true only
\* within an operation in which a strategy dns, meta or file was run against
\* the Site's domain and token and reported success.
C6_VerifiedOnlyByStrategy ==
  [][\A s \in SiteIds :
       (~sites[s].verified /\ sites'[s].verified) => VerifiedByStrategy(s)]_vars

\* C6 (amended): a Site's verified flag changes from false to true only
\* within a verify operation whose strategy reported success, or within a
\* test-mint operation, which runs no strategy and records method dev-test.
C6_VerifiedOnlyByStrategyOrTestMint ==
  [][\A s \in SiteIds :
       (~sites[s].verified /\ sites'[s].verified)
         => (VerifiedByStrategy(s) \/ VerifiedByTestMint(s))]_vars

C6_Witness ==
  \E s \in SiteIds : sites[s].verified /\ sites[s].verificationMethod = "file"

\* C7: once a Site's verified flag is true it is true in every later state.
C7_VerifiedStaysTrue ==
  [][\A s \in SiteIds : sites[s].verified => sites'[s].verified]_vars

C7_Witness ==
  /\ \E s \in SiteIds : sites[s].verified
  /\ \E l \in LicenseIds : licenses[l].status = "revoked"

\* C8: a verified Site has an asset identifier and a verification method,
\* an unverified Site has neither.
C8_VerifiedFieldsTogether ==
  \A s \in SiteIds :
    IF sites[s].verified
    THEN sites[s].storyIpId # NullIp /\ sites[s].verificationMethod # "null"
    ELSE sites[s].storyIpId = NullIp /\ sites[s].verificationMethod = "null"

C8_Witness ==
  \E s \in SiteIds : sites[s].verified /\ sites[s].storyIpId.kind = "ext"

\* C9: a verify request on an already verified Site answers ok with the
\* method under which the Site was first verified, runs no strategy and no
\* IP registration, and leaves the Site record unchanged.
C9_AlreadyVerifiedReportsFirstMethod ==
  [][(resp'.op = "verify" /\ resp'.details = "already")
       => /\ resp'.ok
          /\ resp'.method = firstMethod[resp'.siteId]
          /\ UNCHANGED <<sites, nextExt, pc>>]_vars

\* C10: revoke changes a License to revoked only when its current status is
\* active.
C10_RevokeOnlyFromActive ==
  [][\A l \in LicenseIds :
       (licenses[l].status # "revoked" /\ licenses'[l].status = "revoked")
         => licenses[l].status = "active"]_vars

\* C11: when signing or the activation write fails after the pending License
\* row was created, the purchase answers failure and that row is still in
\* storage with status pending (neither deleted nor active).
C11_FailedPurchaseLeavesPending ==
  [][\A p \in Procs :
       (pc[p] = "bActivate" /\ pc'[p] = "idle")
         => /\ Len(licenses') = Len(licenses)
            /\ licenses'[loc[p].licenseId].status = "pending"]_vars

\* C12: every License that purchase has moved to active has a proof
\* signature and a proof URI, and the signature stored is the one returned
\* to the buyer.
C12_ActiveHasProof ==
  /\ \A l \in LicenseIds :
       licenses[l].status = "active"
         => licenses[l].proofSignature # NoResp /\ licenses[l].proofUri # NullUri
  /\ resp.op = "buy"
       => /\ licenses[resp.licenseId].proofSignature = resp.signature
          /\ licenses[resp.licenseId].proofUri = resp.proofUri
          /\ resp.signature = signReceipt(resp.receipt)

C12_Witness ==
  /\ resp.op = "buy" /\ resp.proofMocked
  /\ licenses[resp.licenseId].status = "active"

\* C13: purchase creates a License row only when the resolved Site has
\* exactly one enabled LicenseTerms row; a purchase of an unknown asset or of
\* a Site without enabled terms is rejected and leaves the License rows and
\* the cache unchanged.
C13_LicenseOnlyWithOneEnabledTerms ==
  [][/\ Len(licenses') > Len(licenses)
        => Cardinality(EnabledTerms(terms[licenses'[Len(licenses')].licenseTermsId].siteId)) = 1
     /\ \A p \in Procs :
          (/\ \/ \E i \in IpIdInputs, b \in BuyerInputs : BuyFind(p, i, b, MaxLicenses)
              \/ BuyFindById(p)
           /\ pc'[p] = "idle")
            => UNCHANGED <<licenses, cache>>]_vars

\* C14: set-terms on a Site that is not verified is rejected and creates or
\* changes no LicenseTerms row; every LicenseTerms row belongs to a verified
\* Site.
C14_TermsOnlyForVerifiedSite ==
  /\ [](\A t \in 1..Len(terms) :
          terms[t].siteId \in SiteIds /\ sites[terms[t].siteId].verified)
  /\ [][\A p \in Procs : \A s \in SiteIds, in \in TermsInputs :
          (SetTermsFind(p, s, in) /\ ~sites[s].verified)
            => pc'[p] = "idle" /\ terms' = terms]_vars

C14_Witness ==
  /\ resp.op = "set-terms" /\ resp.status = 403
  /\ ~sites[resp.siteId].verified
  /\ terms = <<>>

\* the purchases of a buyer for the terms of a Site
LicensesOf(buyer, siteId) ==
  {l \in LicenseIds : licenses[l].buyerAddress = toLowerCase(buyer)
                       /\ terms[licenses[l].licenseTermsId].siteId = siteId}

\* C15: two purchases of the same asset by the same buyer, one after the
\* other or interleaved, each create their own License row and each end
\* active with their own receipt and signature; a purchase is not rejected
\* or merged because an earlier license of that buyer exists.
C15_RepeatPurchasesAreIndependent ==
  /\ [](\A l, m \in LicenseIds :
          (l # m /\ licenses[l].status = "active" /\ licenses[m].status = "active")
            => licenses[l].proofSignature # licenses[m].proofSignature)
  /\ [](\A p, q \in Procs :
          (p # q /\ pc[p] \in {"bActivate", "bInvalidate"}
                 /\ pc[q] \in {"bActivate", "bInvalidate"})
            => loc[p].licenseId # loc[q].licenseId)
  /\ [](resp.op = "buy"
          => /\ licenses[resp.licenseId].status = "active"
             /\ licenses[resp.licenseId].proofSignature = resp.signature
             /\ GetProperty(resp.receipt, "licenseId") = JPrim(ToString(resp.licenseId)))
  /\ [][\A p \in Procs :
          /\ \A i \in IpIdInputs, b \in BuyerInputs :
               (/\ BuyFind(p, i, b, MaxPurchases)
                /\ ValidAddress(b) /\ ResolveSite(i) # 0
                /\ EnabledTerms(ResolveSite(i)) # {}
                /\ LicensesOf(b, ResolveSite(i)) # {})
                 => pc'[p] \in {"bFindById", "bCreate"}
          /\ (BuyFindById(p) /\ ResolveSite(loc[p].ipId) # 0
                /\ EnabledTerms(ResolveSite(loc[p].ipId)) # {})
                 => pc'[p] = "bCreate"
          /\ BuyCreate(p)
                 => /\ Len(licenses') = Len(licenses) + 1
                    /\ loc'[p].licenseId = Len(licenses')]_vars

\* the second purchase of the same buyer has returned; both are active
C15_Witness ==
  /\ resp.op = "buy" /\ resp.licenseId = 2
  /\ licenses[1].status = "active" /\ licenses[2].status = "active"
  /\ licenses[1].buyerAddress = licenses[2].buyerAddress
  /\ licenses[1].licenseTermsId = licenses[2].licenseTermsId

\* C16: a license-check result cached at time T0, with no later set or
\* invalidate for its key, is returned by a check without a storage query at
\* every time before T0+60s; at every time after T0+60s the cache reports it
\* absent and the check goes on to storage.
C16_CachedForSixtySeconds ==
  [][\A p \in Procs : \A i \in IpIdInputs, b \in BuyerInputs :
       LET key == getLicenseCheckCacheKey(i, b) IN
       (CheckGet(p, i, b) /\ key \in DOMAIN cache)
         => /\ now < cache[key].cachedAt + 60
                 => /\ pc'[p] = "idle"
                    /\ resp'.op = "check" /\ resp'.cached
                    /\ resp'.hasLicense = cache[key].value.hasLicense
                    /\ resp'.licenseId = cache[key].value.licenseId
                    /\ cache' = cache
            /\ now > cache[key].cachedAt + 60
                 => /\ pc'[p] = "cFindSite"
                    /\ key \notin DOMAIN cache']_vars

\* a check has just been answered from an entry cached one tick earlier
C16_Witness ==
  /\ CacheHit
  /\ now = HitEntry.cachedAt + TickSeconds

\* the property names of an object
KeysOf(o) == {o.f[i].k : i \in DOMAIN o.f}

\* two JSON values with the same keys and values at every nesting level,
\* whatever the insertion order of the keys
RECURSIVE SameContent(_, _)
SameContent(A, B) ==
  /\ A.t = B.t
  /\ IF A.t = "prim" THEN A.v = B.v
     ELSE IF A.t = "arr"
     THEN /\ Len(A.f) = Len(B.f)
          /\ \A i \in DOMAIN A.f : SameContent(A.f[i].v, B.f[i].v)
     ELSE /\ KeysOf(A) = KeysOf(B)
          /\ \A k \in KeysOf(A) : SameContent(GetProperty(A, k), GetProperty(B, k))

SubmittedProof == resp.op = "validate-proof"

\* C17: JSON objects with the same keys and values at every nesting level
\* but different insertion order have the same stableStringify and hence
\* the same signReceipt.
C17_KeyOrderDoesNotMatter ==
  SubmittedProof =>
    \A B \in ReceiptInputs :
      SameContent(resp.receiptJson, B)
        => /\ stableStringify(resp.receiptJson) = stableStringify(B)
           /\ signReceipt(resp.receiptJson) = signReceipt(B)

\* a receipt with two properties was validated against the signature of its
\* reordering, top level and nested
C17_Witness ==
  /\ SubmittedProof /\ resp.valid
  /\ resp.receiptJson = JObj(<<Prop("z", NestedZA), Prop("a", JPrim("1"))>>)
  /\ resp.signature = signReceipt(JObj(<<Prop("a", JPrim("1")), Prop("z", NestedAZ)>>))

\* C18: for every payload P, verifyReceipt(P, signReceipt(P)) reports valid
\* with the server address as signer (ignoring case): the address recovered
\* from stableStringify(P) and its server signature is the server address.
C18_ServerSignatureVerifies ==
  (SubmittedProof /\ resp.signature = signReceipt(resp.receiptJson))
    => /\ resp.valid
       /\ toLowerCase(resp.signer) = toLowerCase(ServerAddress)
       /\ verifySignature(stableStringify(resp.receiptJson), resp.signature)
            = [threw |-> FALSE, value |-> ServerAddress]

\* a receipt with its keys out of order was validated against its own
\* server signature
C18_Witness ==
  /\ SubmittedProof
  /\ resp.receiptJson = JObj(<<Prop("z", JArr(<<NestedZA>>)), Prop("a", NestedZA)>>)
  /\ resp.signature = signReceipt(resp.receiptJson)

\* P2 is P with the value of a field changed, a field added or a field
\* removed
Tampered(P, P2) ==
  \/ KeysOf(P2) # KeysOf(P)
  \/ \E k \in KeysOf(P) : ~SameContent(GetProperty(P, k), GetProperty(P2, k))

\* C19: a receipt obtained from a payload P by changing the value of a
\* field, adding a field or removing a field is reported invalid when
\* submitted with the server's signature of P.
C19_TamperedReceiptIsInvalid ==
  SubmittedProof =>
    \A P \in ReceiptInputs :
      (resp.signature = signReceipt(P) /\ Tampered(P, resp.receiptJson)) => ~resp.valid

\* C20: with a malformed signature, verifySignature returns an empty result
\* to its caller and does not raise, and verifyReceipt and
\* verifyOwnerSignature return valid false with an empty signer.
C20_MalformedSignatureNeverRaises ==
  (SubmittedProof /\ ~resp.signature.wellFormed)
    => /\ ~verifySignature(stableStringify(resp.receiptJson), resp.signature).threw
       /\ ~resp.valid /\ resp.signer = EmptyString
       /\ verifyOwnerSignature(resp.receiptJson, resp.signature, Addr(1, FALSE))
            = [valid |-> FALSE, signer |-> EmptyString]

\* C21: once the signing identity is initialized, the wallet behind every
\* later sign, verifyReceipt and getServerAddress call is the same, whatever
\* is done (initServerSigner again, the secret changed); so a receipt that
\* was validated as valid is valid whenever it is validated again.
C21_SigningIdentityIsFixed ==
  [][/\ serverWallet # 0 => serverWallet' = serverWallet
     /\ \A p \in Procs :
          (pc[p] = "vpReceived" /\ loc[p].validBefore /\ pc'[p] = "idle")
            => resp'.valid]_vars

\* the strategy call a recorded response answers
StrategyCall(method) == resp.op = "strategy" /\ resp.method = method

\* the live domain gave nothing to examine: no answer, no records, an error
\* status, a content type that is refused, a body that is no JSON or null
NothingFetched(o) ==
  \/ o.kind = "error"
  \/ o.kind = "records" /\ o.records = <<>>
  \/ o.kind = "response" /\ (\/ ~o.ok
                             \/ o.contentType \notin {"application/json", "text/plain", "text/html"}
                             \/ o.body.kind \in {"unparsable", "null"})

\* the rights file parsed to a JSON number, string or array
NonObjectBody(o) == o.kind = "response" /\ o.ok /\ o.body.kind = "nonobject"

\* C22 (as stated): for every outcome of the resolver or the fetch no
\* strategy raises and its details are not empty, and when the outcome is a
\* failure (no records, resolver error, timeout, non-2xx status, wrong
\* content type, unparsable or non-object body) the result is found=false,
\* valid=false.
C22_EveryFailureIsNotFound ==
  resp.op = "strategy" =>
    /\ ~resp.result.threw
    /\ resp.result.details # ""
    /\ (NothingFetched(resp.outcome) \/ NonObjectBody(resp.outcome))
         => ~resp.result.found /\ ~resp.result.valid

\* C22 (amended): no strategy raises and the details are never empty; the
\* result is found=false, valid=false when nothing was fetched or the body
\* is no JSON or null, while a body that parses to a number, string or array
\* is a file that was found and lacks the required fields: found=true,
\* valid=false.
C22_FetchFailureIsNotFound ==
  resp.op = "strategy" =>
    /\ ~resp.result.threw
    /\ resp.result.details # ""
    /\ NothingFetched(resp.outcome) => ~resp.result.found /\ ~resp.result.valid
    /\ NonObjectBody(resp.outcome) => resp.result.found /\ ~resp.result.valid

C22_Witness ==
  /\ StrategyCall("file")
  /\ resp.outcome.kind = "response" /\ resp.outcome.ok
  /\ resp.outcome.body.kind = "null"
  /\ ~resp.result.threw /\ ~resp.result.found

\* the rights file of a recorded call that was fetched and parsed to an object
ParsedFile ==
  /\ StrategyCall("file")
  /\ resp.outcome.kind = "response" /\ resp.outcome.ok
  /\ resp.outcome.contentType \in {"application/json", "text/plain"}
  /\ resp.outcome.body.kind = "object"

\* the checks of the rights file, in their order, and the reason each gives
HasFields(f) ==
  /\ f.domain.kind # "absent" /\ f.owner.kind # "absent"
  /\ f.token.kind # "absent" /\ f.signature.kind # "absent"
DomainMatches(f) == f.domain = String(resp.domain)
TokenMatches(f) == f.token = String(resp.token)
OwnerMatches(f) ==
  f.owner.kind = "string" /\ toLowerCase(f.owner.s) = toLowerCase(resp.owner)
SignatureRecovers(f) ==
  /\ f.signature.kind = "string" /\ f.signature.s.wellFormed
  /\ f.signature.s.message = stableStringify(payloadWithoutSig(f))
  /\ toLowerCase(f.signature.s.signer) = toLowerCase(resp.owner)
FirstFailure(f) ==
  IF ~HasFields(f) THEN "Rights file missing required fields"
  ELSE IF ~DomainMatches(f) THEN "Domain mismatch."
  ELSE IF ~TokenMatches(f) THEN "Token mismatch."
  ELSE IF ~OwnerMatches(f) THEN "Owner mismatch."
  ELSE IF ~SignatureRecovers(f) THEN "Invalid signature."
  ELSE "Valid rights file with verified owner signature"

\* C23: checkRightsFile answers valid=true exactly when the file has the
\* four fields, its domain and token are the expected ones, its owner is the
\* expected owner up to case and its signature over the payload without the
\* signature recovers to that owner; a file that was fetched and parsed but
\* fails a check gives found=true, valid=false with the reason of the first
\* failing check (missing fields, domain, token, owner, signature).
C23_RightsFileChecksInOrder ==
  ParsedFile =>
    LET f == resp.outcome.body
        passes == HasFields(f) /\ DomainMatches(f) /\ TokenMatches(f)
                  /\ OwnerMatches(f) /\ SignatureRecovers(f)
    IN /\ resp.result.valid <=> passes
       /\ ~passes => /\ resp.result.found /\ ~resp.result.valid
                     /\ resp.result.details = FirstFailure(f)

\* the Site rows that hold a domain
SitesWithDomain(domain) == {s \in SiteIds : sites[s].domain = domain}

\* C24: in every interleaving of register requests, a request whose
\* normalized domain is already stored is answered with the conflict that
\* carries the existing Site's id and creates no Site, and no two Site rows
\* have the same domain.
C24_DuplicateDomainIsConflict ==
  /\ [](\A s, t \in SiteIds : sites[s].domain = sites[t].domain => s = t)
  /\ [][\A p \in Procs :
          /\ \A d \in RegisterDomainInputs \cup {OtherDomain}, w \in OwnerInputs :
               (/\ RegisterFind(p, d, w)
                /\ d # NoDomain /\ ValidAddress(w)
                /\ SitesWithDomain(NormalizeDomain(d)) # {})
                 => /\ resp'.op = "register" /\ resp'.status = 409
                    /\ resp'.siteId \in SitesWithDomain(NormalizeDomain(d))
                    /\ sites' = sites
          /\ (RegisterCreate(p) /\ SitesWithDomain(loc[p].domain) # {})
               => /\ resp'.op = "register" /\ resp'.status = 409
                  /\ resp'.siteId \in SitesWithDomain(loc[p].domain)
                  /\ sites' = sites]_vars

\* C25: a request with invalid input (register with a missing domain or a
\* malformed or missing owner address, verify with a method that is not dns,
\* meta or file, set-terms with an empty action list, an unknown price model
\* or a negative price, purchase with a malformed or missing buyer address)
\* is rejected and leaves every Site, LicenseTerms and License row and the
\* cache as they were.
C25_InvalidInputChangesNothing ==
  [][\A p \in Procs :
       (\/ \E d \in RegisterDomainInputs, w \in OwnerInputs :
             RegisterFind(p, d, w) /\ (d.host = "" \/ w.who = 0)
        \/ \E s \in SiteIdInputs, m \in MethodInputs :
             VerifyFind(p, s, m) /\ m \notin {"dns", "meta", "file"}
        \/ \E s \in SiteIdInputs, in \in TermsInputs :
             /\ SetTermsFind(p, s, in)
             /\ \/ in.allowedActions = <<>>
                \/ in.priceModel \notin {"PER_SCRAPE", "SUBSCRIPTION", "FLAT"}
                \/ in.pricePerUnit < 0
        \/ \E i \in IpIdInputs, b \in BuyerInputs :
             BuyFind(p, i, b, MaxLicenses) /\ b.who = 0)
         => /\ resp'.status = 400
            /\ pc'[p] = "idle"
            /\ UNCHANGED <<sites, terms, licenses, cache>>]_vars

\* a set-terms request with invalid input has been rejected on a store that
\* holds terms and a License
C25_Witness ==
  /\ resp.op = "set-terms" /\ resp.status = 400
  /\ Len(terms) > 0 /\ Len(licenses) > 0

\* C26: a Site's verification token is set at registration, has the form
\* scrapesafe-<unique id> (no two Sites share one), and no step of any
\* operation changes it; a strategy that is about to run, or has run, was
\* given the stored token.
C26_TokenIsImmutable ==
  /\ [](\A s \in SiteIds :
          /\ Len(sites[s].verificationToken) = 2
          /\ sites[s].verificationToken[1] = "scrapesafe-"
          /\ \A t \in SiteIds :
               sites[t].verificationToken = sites[s].verificationToken => t = s)
  /\ [](\A p \in Procs :
          pc[p] \in {"vStrategy", "vUpdate"}
            => loc[p].token = sites[loc[p].siteId].verificationToken)
  /\ [][\A s \in SiteIds :
          /\ s \in 1..Len(sites')
          /\ sites'[s].verificationToken = sites[s].verificationToken]_vars

\* a strategy has run against the token of a Site that test-mint has
\* written in the meantime
C26_Witness ==
  \E p \in Procs :
    /\ pc[p] = "vUpdate"
    /\ sites[loc[p].siteId].verificationMethod = "dev-test"
    /\ loc[p].token = sites[loc[p].siteId].verificationToken

\* the properties of an object in ascending ordinal order of their keys
ByKey(f) ==
  [j \in DOMAIN f |->
     f[CHOOSE i \in DOMAIN f : Cardinality({x \in DOMAIN f : Rank(f[x].k) < Rank(f[i].k)}) = j - 1]]

\* the canonical string of a value: every object's keys in ascending
\* ordinal order, every array's elements in their order
RECURSIVE Canonical(_)
RECURSIVE CanonicalMembers(_, _, _)
Canonical(value) ==
  IF value.t = "obj" THEN <<"{">> \o CanonicalMembers(ByKey(value.f), 1, TRUE) \o <<"}">>
  ELSE IF value.t = "arr" THEN <<"[">> \o CanonicalMembers(value.f, 1, FALSE) \o <<"]">>
  ELSE <<value.v>>
CanonicalMembers(f, i, named) ==
  IF i > Len(f) THEN <<>>
  ELSE (IF i > 1 THEN <<",">> ELSE <<>>)
       \o (IF named THEN <<f[i].k, ":">> ELSE <<>>)
       \o Canonical(f[i].v)
       \o CanonicalMembers(f, i + 1, named)

\* C27: for every JSON-compatible value, stableStringify emits the keys of
\* every object, at every nesting level and inside arrays, in ascending
\* ordinal order of the key strings and the elements of every array in their
\* original order.
C27_KeysInOrdinalOrder ==
  resp.op = "validate-proof" =>
    stableStringify(resp.receiptJson) = Canonical(resp.receiptJson)

\* a recorded rights-file call got as far as verifyOwnerSignature
SignatureChecked ==
  /\ ParsedFile
  /\ resp.result.details \in {"Invalid signature.",
                              "Valid rights file with verified owner signature"}

\* C28: verifyOwnerSignature(payload, signature, expectedOwner) answers
\* valid=true exactly when the signature was made over
\* stableStringify(payload) by the key of expectedOwner, whatever the case
\* the address is spelled in and whatever the server's signing identity is; a
\* signature by another key, the server's included, is answered valid=false.
C28_OwnerSignatureOnly ==
  SignatureChecked =>
    LET f == resp.outcome.body
        g == f.signature.s
        made == /\ f.signature.kind = "string" /\ g.wellFormed
                /\ g.message = stableStringify(payloadWithoutSig(f))
    IN /\ resp.result.valid <=> (made /\ g.signer.who = resp.owner.who)
       /\ verifyOwnerSignature(payloadWithoutSig(f), g, resp.owner).valid = resp.result.valid
       /\ (made /\ g.signer = ServerAddress) => ~resp.result.valid

\* the owner is registered in lower case and the file signed with the
\* owner's key has been accepted
C28_Witness ==
  /\ SignatureChecked
  /\ resp.owner.lc
  /\ ~resp.outcome.body.signature.s.signer.lc
  /\ resp.result.valid

\* C29: checkDnsTxt answers found=true exactly when the resolver returns at
\* least one TXT record whose segments, concatenated, equal or contain the
\* token; with no records or an ENODATA or ENOTFOUND resolver error it
\* answers found=false with the reason 'No TXT record found'.
C29_DnsFoundIffRecordHoldsToken ==
  StrategyCall("dns") =>
    LET o == resp.outcome IN
    /\ resp.result.found <=>
         (o.kind = "records" /\ \E i \in DOMAIN o.records :
                                  \/ Join(o.records[i]) = resp.token
                                  \/ Includes(Join(o.records[i]), resp.token))
    /\ (\/ o.kind = "records" /\ o.records = <<>>
        \/ o.kind = "error" /\ o.code \in {"ENODATA", "ENOTFOUND"})
         => ~resp.result.found /\ resp.result.details = "No TXT record found at"

\* a signature was made over a receipt that names this license id
SignsLicense(signature, licenseId) ==
  Includes(signature.message, <<"licenseId", ":", ToString(licenseId)>>)

\* C30: a purchase stores the License row, with status pending, before it
\* builds, signs and pins the receipt; the license id in the signed receipt
\* is the id of that row, and no signature exists (held by a handler, stored
\* or sent) for a license id that is not in storage.
C30_SignedLicenseIsStored ==
  /\ [][\A p \in Procs :
          (pc[p] = "bCreate" /\ pc'[p] # "bCreate")
            => /\ pc'[p] = "bActivate"
               /\ Len(licenses') = Len(licenses) + 1
               /\ loc'[p].licenseId = Len(licenses')
               /\ licenses'[loc'[p].licenseId].status = "pending"
               /\ licenses'[loc'[p].licenseId].proofSignature = NoResp]_vars
  /\ [](\A p \in Procs :
          /\ pc[p] \in {"bActivate", "bInvalidate"} => loc[p].licenseId \in LicenseIds
          /\ pc[p] = "bInvalidate" => SignsLicense(loc[p].signature, loc[p].licenseId))
  /\ [](\A l \in LicenseIds :
          licenses[l].proofSignature # NoResp => SignsLicense(licenses[l].proofSignature, l))
  /\ []((resp.op = "buy" /\ resp.status = 200)
          => resp.licenseId \in LicenseIds /\ SignsLicense(resp.signature, resp.licenseId))

\* a receipt has been signed and stored with its License row
C30_Witness ==
  \E p \in Procs :
    /\ pc[p] = "bInvalidate"
    /\ licenses[loc[p].licenseId].proofSignature = loc[p].signature
    /\ SignsLicense(loc[p].signature, loc[p].licenseId)

\* C31: a verify request whose strategy reports failure (dns or meta not
\* found, file not found or not valid) is answered ok=false with details,
\* makes no IP-registration call and leaves the Site rows as they were; while
\* the Site is unverified a later verify request with any method gets to run
\* its strategy.
C31_FailedVerifyChangesNothing ==
  /\ [][\A p \in Procs : \A f, v \in BOOLEAN :
          (VerifyStrategy(p, f, v) /\ (~f \/ (loc[p].method = "file" /\ ~v)))
            => /\ pc'[p] = "idle"
               /\ resp'.op = "verify" /\ ~resp'.ok /\ resp'.details # ""
               /\ sites' = sites
               /\ nextExt' = nextExt]_vars
  /\ [](\A p \in Procs, s \in SiteIds, m \in {"dns", "meta", "file"} :
          (pc[p] = "idle" /\ ~sites[s].verified)
            => ENABLED (VerifyFind(p, s, m) /\ pc'[p] = "vStrategy"))

\* a failed verification has been answered and the Site is unverified
C31_Witness ==
  /\ resp.op = "verify" /\ ~resp.ok
  /\ resp.siteId \in SiteIds /\ ~sites[resp.siteId].verified

\* the License rows that give `buyer` (as requested, in any case) a license
\* for the Site that `ipId` resolves to: active, bought under the lower-cased
\* address, not expired, under enabled terms of that Site
HeldLicenses(ipId, buyer) ==
  {l \in LicenseIds :
     /\ licenses[l].status = "active"
     /\ licenses[l].buyerAddress = [who |-> buyer.who, lc |-> TRUE]
     /\ (licenses[l].expiry.null \/ licenses[l].expiry.at > now)
     /\ terms[licenses[l].licenseTermsId].enabled
     /\ terms[licenses[l].licenseTermsId].siteId = ResolveSite(ipId)}

\* C32: on a cache miss checkLicense looks for the buyer under the lower-cased
\* address; its lookup finds a License exactly when the store holds an active,
\* unexpired License of that buyer under enabled terms of the resolved Site
\* (so never a pending or revoked one), and the answer it returns, positive
\* with that License's id or negative, is the one it writes to the cache.
C32_MissAnswersFromStore ==
  [][\A p \in Procs :
       /\ \A i \in IpIdInputs, b \in CheckBuyers :
            (CheckGet(p, i, b) /\ pc'[p] = "cFindSite")
              => /\ loc'[p].ipId = i
                 /\ loc'[p].buyer = [who |-> b.who, lc |-> TRUE]
       /\ CheckFindLicense(p)
            => /\ (loc'[p].licenseId # 0) <=> (HeldLicenses(loc[p].ipId, loc[p].buyer) # {})
               /\ loc'[p].licenseId # 0
                    => loc'[p].licenseId \in HeldLicenses(loc[p].ipId, loc[p].buyer)
               /\ loc'[p].ipId = loc[p].ipId /\ loc'[p].buyer = loc[p].buyer
       /\ CheckSet(p)
            => /\ resp'.op = "check" /\ resp'.status = 200 /\ ~resp'.cached
               /\ resp'.hasLicense = (loc[p].licenseId # 0)
               /\ resp'.licenseId = loc[p].licenseId
               /\ LET key == [ipId |-> loc[p].ipId, buyer |-> loc[p].buyer] IN
                  /\ key \in DOMAIN cache'
                  /\ cache'[key].value = [hasLicense |-> resp'.hasLicense,
                                          licenseId |-> resp'.licenseId]]_vars

\* a miss has been answered positively, with the id of an active License
C32_Witness ==
  /\ resp.op = "check" /\ resp.status = 200 /\ ~resp.cached
  /\ resp.hasLicense /\ licenses[resp.licenseId].status = "active"
  /\ cache[[ipId |-> resp.ipId, buyer |-> resp.buyer]].value.licenseId = resp.licenseId

\* the lower-cased form of an address, written out
LowerCased(a) == [who |-> a.who, lc |-> TRUE]

\* C33: the buyer address of a License row created by a purchase and the
\* buyerAddress of its receipt are the lower-cased requested address; the
\* cache key does not depend on the case of the buyer's letters: every entry
\* is kept under the lower-cased buyer, and a purchase or a revoke leaves no
\* entry under the lower-cased buyer for the asset it invalidates.
C33_BuyerIsLowerCased ==
  /\ [](/\ \A l \in LicenseIds : licenses[l].buyerAddress.lc
        /\ \A k \in DOMAIN cache : k.buyer.lc
        /\ \A i \in IpIdInputs, b \in CheckBuyers :
             getLicenseCheckCacheKey(i, b) = getLicenseCheckCacheKey(i, LowerCased(b)))
  /\ [][\A p \in Procs :
          /\ BuyCreate(p)
               => licenses'[Len(licenses')].buyerAddress = LowerCased(loc[p].buyerAddress)
          /\ BuyInvalidate(p)
               => /\ GetProperty(resp'.receipt, "buyerAddress")
                       = JPrim(ToString(LowerCased(loc[p].buyerAddress)))
                  /\ licenses[loc[p].licenseId].buyerAddress = LowerCased(loc[p].buyerAddress)
                  /\ [ipId |-> InvalidationIpId(loc[p].storyIpId, loc[p].siteId),
                      buyer |-> LowerCased(loc[p].buyerAddress)] \notin DOMAIN cache'
          /\ RevokeInvalidate(p)
               => [ipId |-> loc[p].ipId,
                   buyer |-> LowerCased(licenses[loc[p].licenseId].buyerAddress)]
                      \notin DOMAIN cache'
          /\ \A i \in IpIdInputs, b \in CheckBuyers :
               CheckGet(p, i, b)
                 => (pc'[p] = "idle"
                       <=> [ipId |-> i, buyer |-> LowerCased(b)] \in DOMAIN cache)]_vars

\* a purchase requested with a mixed-case address has stored its License
\* and is about to invalidate the entry a check left under the lower-cased
\* address
C33_Witness ==
  \E p \in Procs :
    /\ pc[p] = "bInvalidate" /\ ~loc[p].buyerAddress.lc
    /\ licenses[loc[p].licenseId].buyerAddress = LowerCased(loc[p].buyerAddress)
    /\ [ipId |-> InvalidationIpId(loc[p].storyIpId, loc[p].siteId),
        buyer |-> LowerCased(loc[p].buyerAddress)] \in DOMAIN cache

\* what get returns for a key, by the definition of expiry
Visible(c, k) ==
  IF k \in DOMAIN c /\ ~(now > c[k].expiresAt) THEN c[k].value ELSE NoResp

CacheKeys == {[ipId |-> i, buyer |-> LowerCased(b)] : i \in IpIdInputs, b \in BuyerInputs}

\* C34: the sweep removes exactly the entries whose expiry time has passed
\* and leaves the others as they are; a get of an expired key finds nothing
\* and removes that key only, a get of any other key removes nothing; after
\* either, get gives for every key what it gave before.
C34_PurgeIsInvisible ==
  [][/\ Cleanup
          => /\ DOMAIN cache' = {k \in DOMAIN cache : ~(now > cache[k].expiresAt)}
             /\ \A k \in DOMAIN cache' : cache'[k] = cache[k]
             /\ \A k \in CacheKeys \cup DOMAIN cache : Visible(cache', k) = Visible(cache, k)
     /\ \A p \in Procs : \A i \in IpIdInputs, b \in BuyerInputs :
          CheckGet(p, i, b)
            => LET key == [ipId |-> i, buyer |-> LowerCased(b)]
                   expired == key \in DOMAIN cache /\ now > cache[key].expiresAt
               IN /\ DOMAIN cache' = IF expired THEN DOMAIN cache \ {key} ELSE DOMAIN cache
                  /\ \A k \in DOMAIN cache' : cache'[k] = cache[k]
                  /\ expired => pc'[p] = "cFindSite"
                  /\ \A k \in CacheKeys \cup DOMAIN cache :
                       Visible(cache', k) = Visible(cache, k)]_vars

\* a get has found nothing under its key and goes on to the store, while an
\* expired entry of another key is still in the cache beside an unexpired one
C34_Witness ==
  /\ \E p \in Procs :
       /\ pc[p] = "cFindSite"
       /\ [ipId |-> loc[p].ipId, buyer |-> loc[p].buyer] \notin DOMAIN cache
  /\ \E k \in DOMAIN cache : now > cache[k].expiresAt
  /\ \E k \in DOMAIN cache : ~(now > cache[k].expiresAt)

\* C35: registerIpAsset raises in no environment; without a key, or when the
\* minting throws, its result is simulated and names `story:local:<siteId>`,
\* which parseSiteIdFromIpId maps back to the site id.  A verification that
\* got the simulated identifier still stores the Site as verified under it,
\* and once the Site has enabled terms a purchase naming that identifier is
\* taken to the creation of its License.
C35_SimulatedAssetStillWorks ==
  /\ [](\A s \in SiteIdInputs : \A env \in StoryEnvs :
          LET storyResult == registerIpAssetIn(s, env) IN
          /\ ~storyResult.threw
          /\ env \in {"unconfigured", "failed"}
               => /\ storyResult.simulated
                  /\ storyResult.ipId = [kind |-> "local", n |-> s]
                  /\ parseSiteIdFromIpId(storyResult.ipId) = s)
  /\ [][\A p \in Procs :
          /\ \A f, v \in BOOLEAN :
               (VerifyStrategy(p, f, v) /\ pc'[p] = "vUpdate")
                 => \/ loc'[p].simulated /\ loc'[p].ipId = [kind |-> "local", n |-> loc[p].siteId]
                    \/ ~loc'[p].simulated /\ loc'[p].ipId.kind = "ext"
          /\ (VerifyUpdate(p) /\ loc[p].simulated)
               => /\ sites'[loc[p].siteId].verified
                  /\ sites'[loc[p].siteId].storyIpId = loc[p].ipId
                  /\ resp'.ok /\ resp'.storySimulated
                  /\ resp'.storyIpId = [kind |-> "local", n |-> loc[p].siteId]]_vars
  /\ [](\A p \in Procs, s \in SiteIds :
          (/\ pc[p] = "idle" /\ LicenseRoom(MaxLicenses)
           /\ sites[s].verified /\ sites[s].storyIpId = [kind |-> "local", n |-> s]
           /\ \E t \in 1..Len(terms) : terms[t].siteId = s /\ terms[t].enabled)
            => ENABLED (/\ BuyFind(p, sites[s].storyIpId, Addr(1, FALSE), MaxLicenses)
                        /\ pc'[p] = "bCreate"
                        /\ loc'[p].siteId = s))

\* a License has been sold for a Site that a strategy verified under the
\* simulated identifier
C35_Witness ==
  \E l \in LicenseIds :
    LET s == terms[licenses[l].licenseTermsId].siteId IN
    /\ licenses[l].status = "active"
    /\ sites[s].storyIpId = [kind |-> "local", n |-> s]
    /\ sites[s].verificationMethod \in {"dns", "file"}

\* a domain string in normal form: lower case, no scheme in front, no slash
\* at the end, no white space around it
IsNormalized(d) == ~d.upper /\ ~d.scheme /\ ~d.slash /\ ~d.lead /\ ~d.trail

\* C36: every stored domain is in normal form, and normalizing it again
\* gives the same string.
C36_StoredDomainIsNormalized ==
  \A s \in SiteIds :
    /\ IsNormalized(sites[s].domain)
    /\ NormalizeDomain(sites[s].domain) = sites[s].domain

\* C37: once a Site is verified its method and asset identifier keep the
\* values written at that moment, whatever verify and test-mint requests run
\* beside each other; the identifier reported to a caller whose verification
\* succeeded is the one the Site holds from then on.
C37_VerificationIsWrittenOnce ==
  [][/\ \A s \in SiteIds :
          sites[s].verified
            => /\ sites'[s].verificationMethod = sites[s].verificationMethod
               /\ sites'[s].storyIpId = sites[s].storyIpId
     /\ \A p \in Procs :
          VerifyUpdate(p)
            => /\ resp'.storyIpId = sites'[loc[p].siteId].storyIpId
               /\ sites[loc[p].siteId].storyIpId \in {NullIp, resp'.storyIpId}]_vars

\* C38: every License row names a LicenseTerms row whose Site is verified; a
\* purchase creates its License only for a verified Site, and a purchase
\* naming an identifier that resolves to an unverified Site creates none.
C38_LicensesOnlyForVerifiedSites ==
  /\ [](\A l \in LicenseIds :
          /\ licenses[l].licenseTermsId \in 1..Len(terms)
          /\ terms[licenses[l].licenseTermsId].siteId \in SiteIds
          /\ sites[terms[licenses[l].licenseTermsId].siteId].verified)
  /\ [][\A p \in Procs :
          /\ BuyCreate(p) => sites[terms[loc[p].termsId].siteId].verified
          /\ \A i \in IpIdInputs, b \in BuyerInputs :
               (/\ BuyFind(p, i, b, MaxLicenses)
                /\ ResolveSite(i) \in SiteIds
                /\ ~sites[ResolveSite(i)].verified)
                 => pc'[p] \in {"idle", "bFindById"}
          /\ (BuyFindById(p) /\ loc[p].siteId \in SiteIds /\ ~sites[loc[p].siteId].verified)
               => pc'[p] = "idle"]_vars

\* an active License is stored under terms of a verified Site
C38_Witness ==
  \E l \in LicenseIds :
    /\ licenses[l].status = "active"
    /\ sites[terms[licenses[l].licenseTermsId].siteId].verified

\* C39: at most one call of processQueue is inside its loop at any time; no
\* job is held by two loops or by a loop and the queue at once; and a job
\* enqueued while a loop runs is put on the queue for that loop, no second
\* loop being started.
C39_OneProcessingLoop ==
  /\ [](/\ Cardinality(RunningLoops) <= 1
        /\ \A l, m \in RunningLoops :
             (l # m /\ pinLoops[l].at = "job" /\ pinLoops[m].at = "job")
               => pinLoops[l].job.id # pinLoops[m].job.id
        /\ \A l \in RunningLoops : \A i \in 1..Len(pinQueue) :
             pinLoops[l].at = "job" => pinQueue[i].id # pinLoops[l].job.id)
  /\ [][\A licenseId \in PinLicenseInputs :
          (enqueuePinJob(licenseId) /\ RunningLoops # {})
            => /\ pinLoops' = pinLoops
               /\ Len(pinQueue') = Len(pinQueue) + 1]_vars

\* C40: processJob is called at most 4 times for a job (once and for at most
\* 3 retries), and a job whose fourth attempt failed is not queued again;
\* once jobs are no longer enqueued the queue ends up empty for good, with
\* the processing flag false and no loop running, also when every attempt
\* fails.
C40_RetriesAreBoundedAndQueueDrains ==
  /\ [](\A j \in 1..Len(attempts) : attempts[j] <= 4)
  /\ [][\A l \in 1..MaxLoops : \A env \in PinEnvs :
          (JobSettled(l, env) /\ attempts[pinLoops[l].job.id] = 4)
            => /\ pinQueue' = pinQueue
               /\ \A i \in 1..Len(pinQueue') : pinQueue'[i].id # pinLoops[l].job.id]_vars
  /\ <>[](pinQueue = <<>> /\ ~isProcessing /\ RunningLoops = {})

\* a job was given up after its fourth attempt and the worker has come to rest
C40_Witness ==
  /\ \E j \in 1..Len(attempts) : attempts[j] = 4
  /\ pinQueue = <<>> /\ ~isProcessing /\ RunningLoops = {}

====
